---------------------------- MODULE Spec2Model ----------------------------
(***************************************************************************)
(* State-machine model of the image-compression backend (the Express       *)
(* server with multer, the region-detection client, the recommendation     *)
(* client, the sharp-based compression engine, the Mongo record store and  *)
(* the zip download).                                                       *)
(*                                                                         *)
(* Numbers with two decimals (compressionRatio) are kept as integers in    *)
(* hundredths.  Strings the code inspects character by character (labels,  *)
(* the quality parameter, the answers of the text model) are sequences of  *)
(* one-character strings; strings the code only copies are TLA+ strings.   *)
(***************************************************************************)
EXTENDS Integers, Sequences, FiniteSets, TLC

(***************************************************************************)
(* Bounds of the model.                                                    *)
(***************************************************************************)
\* longest list of files one upload request carries in the model
MaxFiles == 2
\* most records the collection holds when the service starts
MaxStored == 12

\* a request to /api/ai-format arrives only while no more requests than
\* this have arrived
MaxFormatRequests == 2
\* selections of files the user of the web client makes in one run
MaxSelections == 2

(***************************************************************************)
(* Program constants.                                                      *)
(***************************************************************************)
\* limits: { fileSize: 10 * 1024 * 1024 }
FileSizeLimit == 10 * 1024 * 1024
\* upload.array('images', 10)
MaxCount == 10
\* quality = 80 (request default) and the recommendation fallback
DefaultQuality == 80
\* targetQuality < 90
BoostBelow == 90
\* targetQuality + 10
BoostStep == 10
\* Math.min(..., 95)
BoostCap == 95
\* regions.slice(0, 5)
RegionsShown == 5
\* .limit(10)
RecentLimit == 10

\* the JavaScript value NaN among the qualities: no quality of the model is
\* negative (the inputs carry no sign), and every comparison tests for it
NaN == 0 - 1

(***************************************************************************)
(* Character strings.                                                      *)
(***************************************************************************)
Digits == <<"0", "1", "2", "3", "4", "5", "6", "7", "8", "9">>

IsDigit(ch) == \E i \in 1..10 : Digits[i] = ch

DigitValue(ch) == (CHOOSE i \in 1..10 : Digits[i] = ch) - 1

Upper == <<"A", "B", "C", "D", "E", "F", "G", "H", "I", "J", "K", "L", "M",
           "N", "O", "P", "Q", "R", "S", "T", "U", "V", "W", "X", "Y", "Z">>
Lower == <<"a", "b", "c", "d", "e", "f", "g", "h", "i", "j", "k", "l", "m",
           "n", "o", "p", "q", "r", "s", "t", "u", "v", "w", "x", "y", "z">>

IsUpper(ch) == \E i \in 1..26 : Upper[i] = ch

IsLower(ch) == \E i \in 1..26 : Lower[i] = ch

ToLowerChar(ch) ==
    IF IsUpper(ch) THEN Lower[CHOOSE i \in 1..26 : Upper[i] = ch] ELSE ch

\* String.prototype.toLowerCase
ToLowerCase(s) == [i \in 1..Len(s) |-> ToLowerChar(s[i])]

\* String.prototype.includes
Includes(s, sub) ==
    \E i \in 0..(Len(s) - Len(sub)) :
        \A j \in 1..Len(sub) : s[i + j] = sub[j]

\* the regular-expression classes \d, \w and \s, and "." (no line end)
IsWordChar(ch) == IsDigit(ch) \/ IsUpper(ch) \/ IsLower(ch) \/ ch = "_"

IsSpace(ch) == ch \in {" ", "\n", "\t"}

IsNotNewline(ch) == ch # "\n"

\* ch belongs to the class: "d" is \d, "w" is \w, "s" is \s, "." is .
InClass(class, ch) ==
    CASE class = "d" -> IsDigit(ch)
      [] class = "w" -> IsWordChar(ch)
      [] class = "s" -> IsSpace(ch)
      [] OTHER -> IsNotNewline(ch)

\* how many characters of s, from position p on, belong to the class T
Span(s, p, T) ==
    CHOOSE n \in 0..(Len(s) - p + 1) :
        /\ \A j \in 0..(n - 1) : InClass(T, s[p + j])
        /\ (p + n > Len(s) \/ ~InClass(T, s[p + n]))

RECURSIVE DecimalValue(_)
DecimalValue(ds) ==
    IF ds = <<>> THEN 0
    ELSE 10 * DecimalValue(SubSeq(ds, 1, Len(ds) - 1)) + DigitValue(ds[Len(ds)])

\* parseInt of a string: the value of its leading digits after leading white
\* space, NaN when there are none
ParseInt(v) ==
    LET p == 1 + Span(v, 1, "s")
        n == Span(v, p, "d")
    IN  IF n = 0 THEN NaN ELSE DecimalValue(SubSeq(v, p, p + n - 1))

(***************************************************************************)
(* The words and texts of the program, spelled out.                        *)
(***************************************************************************)
Webp ==
    <<"w", "e", "b", "p">>

Avif ==
    <<"a", "v", "i", "f">>

Png ==
    <<"p", "n", "g">>

Jpeg ==
    <<"j", "p", "e", "g">>

Gif ==
    <<"g", "i", "f">>

\* format = 'webp' (request default) and the recommendation fallback
DefaultFormat == Webp

\* the four formats the compression engine and the clients name
Formats == {Jpeg, Webp, Avif, Png}

\* const importantLabels = ['person', 'face', 'text', 'book', 'laptop', 'cell phone']
importantLabels ==
    << <<"p", "e", "r", "s", "o", "n">>, <<"f", "a", "c", "e">>,
       <<"t", "e", "x", "t">>, <<"b", "o", "o", "k">>,
       <<"l", "a", "p", "t", "o", "p">>,
       <<"c", "e", "l", "l", " ", "p", "h", "o", "n", "e">> >>

\* the keys of the three regular expressions, in lower case (flag i)
QualityKey ==
    <<"q", "u", "a", "l", "i", "t", "y", ":">>

FormatKey ==
    <<"f", "o", "r", "m", "a", "t", ":">>

ContextKey ==
    <<"c", "o", "n", "t", "e", "x", "t", ":">>

\* context of the fallback answer: 'Default optimization'
DefaultOptimization ==
    <<"D", "e", "f", "a", "u", "l", "t", " ", "o", "p", "t", "i", "m", "i",
      "z", "a", "t", "i", "o", "n">>

\* context when the answer has no CONTEXT line: 'Balanced optimization'
BalancedOptimization ==
    <<"B", "a", "l", "a", "n", "c", "e", "d", " ", "o", "p", "t", "i", "m",
      "i", "z", "a", "t", "i", "o", "n">>

(***************************************************************************)
(* Recommendation client: getAIQualityRecommendation.                      *)
(***************************************************************************)
\* the key, whatever the case of its letters, stands at position i of text
KeyAt(text, key, i) ==
    /\ i + Len(key) - 1 <= Len(text)
    /\ \A j \in 1..Len(key) : ToLowerChar(text[i + j - 1]) = key[j]

\* KEY:\s*(T+) tried at position i: the numbers of white-space characters
\* after the key that \s* may take so that a character of class T follows
SkipChoices(text, key, i, T) ==
    LET p == i + Len(key)
    IN  {k \in 0..Span(text, p, "s") :
            p + k <= Len(text) /\ InClass(T, text[p + k])}

MatchPositions(text, key, T) ==
    {i \in 1..Len(text) : KeyAt(text, key, i) /\ SkipChoices(text, key, i, T) # {}}

SetMin(S) == CHOOSE x \in S : \A y \in S : x <= y

SetMax(S) == CHOOSE x \in S : \A y \in S : x >= y

\* text.match(/KEY:\s*(T+)/i): <<>> when nothing matches, else <<capture>>,
\* the capture of the leftmost match, \s* and T+ both greedy
RegexCapture(text, key, T) ==
    IF MatchPositions(text, key, T) = {} THEN <<>>
    ELSE LET i == SetMin(MatchPositions(text, key, T))
             q == i + Len(key) + SetMax(SkipChoices(text, key, i, T))
         IN  << SubSeq(text, q, q + Span(text, q, T) - 1) >>

\* String.prototype.trim
Trim(s) ==
    LET a == Span(s, 1, "s")
        Ends == {e \in a..Len(s) : e = a \/ ~IsSpace(s[e])}
    IN  SubSeq(s, a + 1, SetMax(Ends))

\* a recommendation client whose catch answers with the context of the
\* parser's default
getAIQualityRecommendationBalanced(answer) ==
    [quality |-> DefaultQuality, format |-> DefaultFormat,
     context |-> BalancedOptimization]

\* The answer of the text model is [ok |-> FALSE] when the call throws
\* (network error, time-out, refusal) and [ok |-> TRUE, text |-> ...] else.
getAIQualityRecommendation(answer) ==
    IF ~answer.ok
    THEN [quality |-> DefaultQuality, format |-> DefaultFormat,
          context |-> DefaultOptimization]
    ELSE LET qualityMatch == RegexCapture(answer.text, QualityKey, "d")
             formatMatch  == RegexCapture(answer.text, FormatKey, "w")
             contextMatch == RegexCapture(answer.text, ContextKey, ".")
         IN  [quality |-> IF qualityMatch # <<>> THEN ParseInt(qualityMatch[1])
                          ELSE DefaultQuality,
              format  |-> IF formatMatch # <<>> THEN ToLowerCase(formatMatch[1])
                          ELSE DefaultFormat,
              context |-> IF contextMatch # <<>> THEN Trim(contextMatch[1])
                          ELSE BalancedOptimization]

(***************************************************************************)
(* Recommendation client: getAIFormatRecommendation.                       *)
(***************************************************************************)
ReasonKey ==
    <<"r", "e", "a", "s", "o", "n", ":">>

\* reason when the answer has no REASON line: 'Optimized for web use'
OptimizedForWeb ==
    <<"O", "p", "t", "i", "m", "i", "z", "e", "d", " ", "f", "o", "r", " ", "w", "e", "b", " ", "u", "s", "e">>

\* reason of the fallback answer: 'Default web optimization'
DefaultWebOptimization ==
    <<"D", "e", "f", "a", "u", "l", "t", " ", "w", "e", "b", " ", "o", "p", "t", "i", "m", "i", "z", "a", "t", "i", "o", "n">>

\* detectedObjects.map is inside the try: a value that is no array makes it
\* throw, and the catch answers like a failed call of the model
getAIFormatRecommendation(detectedObjects, answer) ==
    IF ~detectedObjects.array \/ ~answer.ok
    THEN [format |-> DefaultFormat, reason |-> DefaultWebOptimization]
    ELSE LET formatMatch == RegexCapture(answer.text, FormatKey, "w")
             reasonMatch == RegexCapture(answer.text, ReasonKey, ".")
         IN  [format |-> IF formatMatch # <<>> THEN ToLowerCase(formatMatch[1])
                         ELSE DefaultFormat,
              reason |-> IF reasonMatch # <<>> THEN Trim(reasonMatch[1])
                         ELSE OptimizedForWeb]

(***************************************************************************)
(* Uploaded files, stored paths and the uploads directory.                 *)
(***************************************************************************)
\* String.prototype.startsWith
StartsWith(s, prefix) ==
    /\ Len(prefix) <= Len(s)
    /\ \A j \in 1..Len(prefix) : s[j] = prefix[j]

ImagePrefix == <<"i", "m", "a", "g", "e", "/">>

\* path.extname: from the last dot on, empty when there is no dot or the only
\* dot opens the name
ExtName(name) ==
    LET Dots == {i \in 2..Len(name) : name[i] = "."}
    IN  IF Dots = {} THEN <<>> ELSE SubSeq(name, SetMax(Dots), Len(name))

\* filename: 'original-' + uniqueSuffix + path.extname(file.originalname),
\* below destination 'uploads/'
\* a file name that also carries the name the client gave the file
OriginalPathNamed(suffix, originalname) ==
    [kind |-> "original-", format |-> <<>>, suffix |-> suffix,
     ext |-> ExtName(originalname), name |-> originalname]

OriginalPath(suffix, originalname) ==
    [kind |-> "original-", format |-> <<>>, suffix |-> suffix,
     ext |-> ExtName(originalname)]

\* imagePath.replace('original-', `compressed-${targetFormat}-`): the first
\* 'original-' of 'uploads/original-...' is the prefix of the file name
CompressedPath(imagePath, targetFormat) ==
    IF imagePath.kind = "original-"
    THEN [imagePath EXCEPT !.kind = "compressed-", !.format = targetFormat]
    ELSE imagePath

\* the directory with the file at path p (over)written with content c
WriteFile(d, p, c) ==
    [q \in (DOMAIN d) \cup {p} |-> IF q = p THEN c ELSE d[q]]

\* fs.unlinkSync and any outside removal
RemoveFile(d, p) == [q \in (DOMAIN d) \ {p} |-> d[q]]

\* fs.existsSync
ExistsSync(d, p) == p \in DOMAIN d

(***************************************************************************)
(* multer: fileFilter, limits and the count of upload.array('images', 10). *)
(***************************************************************************)
FileFilterAccepts(file) == StartsWith(file.mimetype, ImagePrefix)

\* a size test that lets every file pass
AnySize(file) == TRUE

WithinFileSize(file) == file.size <= FileSizeLimit

\* the error multer hands to next(), "" when the request passes; the parts
\* are taken in order and the first offence ends the parsing
RECURSIVE MulterError(_, _)
MulterError(parts, n) ==
    IF parts = <<>> THEN ""
    ELSE IF n + 1 > MaxCount THEN "MulterError: Unexpected field"
    ELSE IF ~FileFilterAccepts(Head(parts))
         THEN "Error: Only image files are allowed!"
    ELSE IF ~WithinFileSize(Head(parts)) THEN "MulterError: File too large"
    ELSE MulterError(Tail(parts), n + 1)

(***************************************************************************)
(* Region-detection client: detectRegions.                                 *)
(***************************************************************************)
\* A JavaScript value that should be an array of regions: array tells
\* whether it is one, items holds its elements.
EmptyList == [array |-> TRUE, items |-> <<>>]

\* a detection client that does not absorb a failed call: it returns no list
detectRegionsUnabsorbed(d, imagePath, outcome) ==
    IF ~ExistsSync(d, imagePath) \/ ~outcome.ok
    THEN [array |-> FALSE, items |-> <<>>]
    ELSE outcome.data

\* The outcome of the HTTP call is [ok |-> FALSE] when axios throws (network
\* error, time-out, non-2xx) and [ok |-> TRUE, data |-> body] else; the file
\* read is inside the same try.
detectRegions(d, imagePath, outcome) ==
    IF ~ExistsSync(d, imagePath) \/ ~outcome.ok THEN EmptyList
    ELSE outcome.data

\* Array.prototype.slice(0, 5) of the regions
SliceRegions(regions) ==
    SubSeq(regions.items, 1,
           IF Len(regions.items) < RegionsShown THEN Len(regions.items)
           ELSE RegionsShown)

(***************************************************************************)
(* Compression engine: adaptiveCompress.                                   *)
(***************************************************************************)
\* a comparison that takes the label as it is
LabelMatchesAsWritten(region, label) ==
    /\ region.label # <<>>
    /\ region.label[1] # <<>>
    /\ Includes(region.label[1], label)

\* region.label && region.label.toLowerCase().includes(label); a region's
\* label is <<>> when the property is missing and <<text>> else
LabelMatches(region, label) ==
    /\ region.label # <<>>
    /\ region.label[1] # <<>>
    /\ Includes(ToLowerCase(region.label[1]), label)

hasImportantRegions(regions) ==
    \E i \in 1..Len(regions.items) :
        \E k \in 1..Len(importantLabels) :
            LabelMatches(regions.items[i], importantLabels[k])

\* the boost without Math.min(..., 95)
AdjustQualityUncapped(regions, targetQuality) ==
    IF hasImportantRegions(regions) /\ targetQuality # NaN
          /\ targetQuality < BoostBelow
    THEN targetQuality + BoostStep
    ELSE targetQuality

\* the boost without the test targetQuality < 90
AdjustQualityUnguarded(regions, targetQuality) ==
    IF hasImportantRegions(regions) /\ targetQuality # NaN
    THEN IF targetQuality + BoostStep < BoostCap
         THEN targetQuality + BoostStep ELSE BoostCap
    ELSE targetQuality

\* if (hasImportantRegions && targetQuality < 90)
\*   targetQuality = Math.min(targetQuality + 10, 95)
AdjustQuality(regions, targetQuality) ==
    IF hasImportantRegions(regions) /\ targetQuality # NaN
          /\ targetQuality < BoostBelow
    THEN IF targetQuality + BoostStep < BoostCap
         THEN targetQuality + BoostStep ELSE BoostCap
    ELSE targetQuality

\* switch (targetFormat): the encoder that produces the buffer
EncoderOf(targetFormat) ==
    IF targetFormat \in {Webp, Avif, Png} THEN targetFormat ELSE Jpeg

\* Math.floor((100 - targetQuality) / 10)
CompressionLevel(q) == (100 - q) \div 10

\* an encoder that takes every option
EncoderAcceptsAll(targetFormat, q) == TRUE

\* sharp validates the options of .webp(), .avif(), .jpeg() (quality an
\* integer of 1..100) and of .png() (compressionLevel an integer of 0..9)
\* and throws otherwise
EncoderAccepts(targetFormat, q) ==
    /\ q # NaN
    /\ IF EncoderOf(targetFormat) = Png
       THEN CompressionLevel(q) >= 0 /\ CompressionLevel(q) <= 9
       ELSE q >= 1 /\ q <= 100

\* sharp(compressedBuffer).toFile(compressedPath) chooses the output format
\* by the extension of the path and keeps the format of the buffer for an
\* extension it does not know
ExtensionFormat(ext, bufferFormat) ==
    IF ext \in {<<".", "j", "p", "g">>, <<".", "j", "p", "e", "g">>} THEN Jpeg
    ELSE IF ext = <<".", "p", "n", "g">> THEN Png
    ELSE IF ext = <<".", "w", "e", "b", "p">> THEN Webp
    ELSE IF ext = <<".", "a", "v", "i", "f">> THEN Avif
    ELSE bufferFormat

\* error.message of what adaptiveCompress throws
InputUnreadable == "Input file is missing or of an unsupported image format"

NotAFunction == "regions.some is not a function"

EncoderRefused == "Expected integer between 1 and 100 for quality"

\* The call adaptiveCompress(imagePath, regions, targetFormat, targetQuality)
\* on directory d; bufferLength and writtenLength are the sizes the two
\* encodings come out with.  threw tells that the function threw: missing or
\* undecodable input at metadata(), then regions.some on a non-array, then
\* options the encoder refuses; otherwise file is what toFile stored at
\* compressedPath.
adaptiveCompress(d, imagePath, regions, targetFormat, targetQuality, bufferLength, writtenLength) ==
    LET finalQuality == IF regions.array
                        THEN AdjustQuality(regions, targetQuality)
                        ELSE targetQuality
        compressedPath == CompressedPath(imagePath, targetFormat)
        error == IF ~ExistsSync(d, imagePath) THEN InputUnreadable
                 ELSE IF ~d[imagePath].decodable THEN InputUnreadable
                 ELSE IF ~regions.array THEN NotAFunction
                 ELSE IF ~EncoderAccepts(targetFormat, finalQuality)
                      THEN EncoderRefused
                 ELSE ""
    IN  [threw |-> error # "",
         error |-> error,
         compressedPath |-> compressedPath,
         compressedSize |-> bufferLength,
         quality |-> finalQuality,
         format |-> targetFormat,
         file |-> [size |-> writtenLength, decodable |-> TRUE,
                   encoding |-> ExtensionFormat(compressedPath.ext,
                                                EncoderOf(targetFormat))]]

(***************************************************************************)
(* Upload orchestrator: the pure parts of app.post('/api/upload').          *)
(***************************************************************************)
\* the ratio with the digits after the second decimal cut off, not rounded
compressionRatioTruncated(originalSize, compressedSize) ==
    IF originalSize = 0 THEN NaN
    ELSE LET diff == originalSize - compressedSize
             mag  == IF diff < 0 THEN 0 - diff ELSE diff
             n    == (10000 * mag) \div originalSize
         IN  IF diff < 0 THEN 0 - n ELSE n

\* parseFloat(((originalSize - compressedSize) / originalSize * 100)
\*     .toFixed(2)), in hundredths: toFixed rounds the magnitude to the
\* nearest hundredth, a half upwards, and keeps the sign
compressionRatio(originalSize, compressedSize) ==
    IF originalSize = 0 THEN NaN
    ELSE LET diff == originalSize - compressedSize
             mag  == IF diff < 0 THEN 0 - diff ELSE diff
             n    == (2 * 10000 * mag + originalSize) \div (2 * originalSize)
         IN  IF diff < 0 THEN 0 - n ELSE n

\* const { format = 'webp', quality = 80, prompt } = req.body; a field of
\* the body is <<>> when absent and <<value>> else
RequestFormat(reqBody) ==
    IF reqBody.format = <<>> THEN DefaultFormat ELSE reqBody.format[1]

\* parseInt(quality)
RequestQuality(reqBody) ==
    IF reqBody.quality = <<>> THEN DefaultQuality
    ELSE ParseInt(reqBody.quality[1])

\* prompt is truthy: given and not the empty string
PromptGiven(reqBody) == reqBody.prompt # <<>> /\ reqBody.prompt[1] # ""

\* new Image({...}) for the file in hand; createdAt takes its default,
\* Date.now, when the document is built
NewRecord(id, file, reqBody, regions, aiRecommendation, targetFormat, out, now) ==
    [id |-> id,
     originalName |-> file.originalname,
     originalSize |-> file.size,
     compressedSize |-> out.compressedSize,
     compressionRatio |-> compressionRatio(file.size, out.compressedSize),
     originalPath |-> file.path,
     compressedPath |-> out.compressedPath,
     aiRegions |-> regions.items,
     format |-> targetFormat,
     quality |-> out.quality,
     aiSuggestion |-> IF aiRecommendation = <<>> THEN <<>>
                      ELSE <<aiRecommendation[1].context>>,
     promptUsed |-> reqBody.prompt,
     createdAt |-> now]

\* results.push({...})
ResultItem(id, file, regions, aiRecommendation, targetFormat, out) ==
    [id |-> id,
     originalName |-> file.originalname,
     originalSize |-> file.size,
     compressedSize |-> out.compressedSize,
     compressionRatio |-> compressionRatio(file.size, out.compressedSize),
     originalUrl |-> file.path,
     compressedUrl |-> out.compressedPath,
     regions |-> SliceRegions(regions),
     quality |-> out.quality,
     format |-> targetFormat,
     aiSuggestion |-> IF aiRecommendation = <<>> THEN <<>>
                      ELSE <<aiRecommendation[1].context>>]

\* An HTTP response; status 0 stands for no response yet.  data is the
\* JSON value of the field data: the list items when array, the one item
\* items[1] when not.
NoResponse ==
    [status |-> 0, success |-> FALSE, error |-> "", details |-> "",
     array |-> FALSE, items |-> <<>>, batch |-> FALSE]

\* res.json({success: true, data: results.length === 1 ? results[0] : results,
\*           batch: results.length > 1})
UploadSuccess(results) ==
    [status |-> 200, success |-> TRUE, error |-> "", details |-> "",
     array |-> Len(results) # 1, items |-> results, batch |-> Len(results) > 1]

\* res.status(code).json({ error: message, details: error.message }), and
\* the answer of Express's own error handler, which is 500 for an error
\* that carries no status
ErrorResponse(code, message, details) ==
    [status |-> code, success |-> FALSE, error |-> message,
     details |-> details, array |-> FALSE, items |-> <<>>, batch |-> FALSE]

(***************************************************************************)
(* Inputs of the model: the files a client may send, the request bodies,   *)
(* and what the two outside services and the encoder may answer.           *)
(***************************************************************************)
PersonRegion == [label |-> << <<"p", "e", "r", "s", "o", "n">> >>]

CatRegion == [label |-> << <<"c", "a", "t">> >>]

\* a PNG photo of a person
PhotoA ==
    [originalname |-> <<"a", ".", "p", "n", "g">>, mimetype |-> <<"i", "m", "a", "g", "e", "/", "p", "n", "g">>, size |-> 30,
     decodable |-> TRUE, scene |-> <<PersonRegion>>]

\* a JPEG photo of a cat
PhotoB ==
    [originalname |-> <<"b", ".", "j", "p", "g">>, mimetype |-> <<"i", "m", "a", "g", "e", "/", "j", "p", "e", "g">>, size |-> 32,
     decodable |-> TRUE, scene |-> <<CatRegion>>]

\* a second PNG, a photo of a cat
PhotoC ==
    [originalname |-> <<"c", ".", "p", "n", "g">>, mimetype |-> <<"i", "m", "a", "g", "e", "/", "p", "n", "g">>, size |-> 28,
     decodable |-> TRUE, scene |-> <<CatRegion>>]

\* a text file
Notes ==
    [originalname |-> <<"n", ".", "t", "x", "t">>, mimetype |-> <<"t", "e", "x", "t", "/", "p", "l", "a", "i", "n">>, size |-> 10,
     decodable |-> FALSE, scene |-> <<>>]

\* an image one byte over the size limit
Huge ==
    [originalname |-> <<"h", ".", "p", "n", "g">>, mimetype |-> <<"i", "m", "a", "g", "e", "/", "p", "n", "g">>, size |-> FileSizeLimit + 1,
     decodable |-> TRUE, scene |-> <<>>]

\* a file of exactly the size limit, sent as an image, that no decoder reads
Broken ==
    [originalname |-> <<"x", ".", "p", "n", "g">>, mimetype |-> <<"i", "m", "a", "g", "e", "/", "p", "n", "g">>, size |-> FileSizeLimit,
     decodable |-> FALSE, scene |-> <<>>]

FilePool == {PhotoA, PhotoB, Notes, Huge, Broken}

RECURSIVE SeqsUpTo(_, _)
SeqsUpTo(S, n) ==
    IF n = 0 THEN {<<>>}
    ELSE LET Shorter == SeqsUpTo(S, n - 1)
         IN  Shorter \cup {Append(s, x) : s \in Shorter, x \in S}

\* the lists of files of an upload request
FileLists == SeqsUpTo(FilePool, MaxFiles)

Q70 == <<"7", "0">>

Q88 == <<"8", "8">>

Q97 == <<"9", "7">>

QBad == <<"h", "i">>

\* the multipart fields beside the files
Bodies ==
    [format : {<<>>, <<Jpeg>>, <<Webp>>, <<Avif>>, <<Png>>},
     quality : {<<>>, <<Q70>>, <<Q88>>, <<Q97>>, <<QBad>>},
     prompt : {<<>>}]
    \cup
    { [format |-> <<Jpeg>>, quality |-> <<Q70>>, prompt |-> <<"">>],
      [format |-> <<>>, quality |-> <<>>, prompt |-> <<"for email">>],
      [format |-> <<Png>>, quality |-> <<QBad>>, prompt |-> <<"for email">>] }

\* answers of the text model: a full answer, one with a quality no encoder
\* takes, one that names a format outside the four and no quality
AnswerFull == <<"Q", "U", "A", "L", "I", "T", "Y", ":", " ", "6", "0", "\n", "F", "O", "R", "M", "A", "T", ":", " ", "J", "P", "E", "G", "\n", "C", "O", "N", "T", "E", "X", "T", ":", " ", "e", "m", "a", "i", "l">>

AnswerZero == <<"Q", "U", "A", "L", "I", "T", "Y", ":", " ", "0", "\n", "F", "O", "R", "M", "A", "T", ":", " ", "w", "e", "b", "p">>

AnswerGif == <<"F", "o", "r", "m", "a", "t", ":", " ", "G", "I", "F">>

ModelAnswers ==
    { [ok |-> FALSE, text |-> <<>>] }
    \cup { [ok |-> TRUE, text |-> t] : t \in {AnswerFull, AnswerZero, AnswerGif} }

\* answers of the text model about a format: format and reason, and a
\* sentence with neither line
FormatAnswerFull == <<"F", "O", "R", "M", "A", "T", ":", " ", "A", "V", "I", "F", "\n", "R", "E", "A", "S", "O", "N", ":", " ", "s", "m", "a", "l", "l">>

FormatAnswerProse == <<"u", "s", "e", " ", "p", "n", "g">>

FormatAnswers ==
    { [ok |-> FALSE, text |-> <<>>] }
    \cup { [ok |-> TRUE, text |-> t] : t \in {FormatAnswerFull, FormatAnswerProse} }

\* an answer with a quality above 100 and a format in capitals
AnswerHigh == <<"Q", "U", "A", "L", "I", "T", "Y", ":", " ", "1", "5", "0", "\n", "F", "O", "R", "M", "A", "T", ":", " ", "P", "N", "G">>

\* an answer with the quality 100
AnswerTop == <<"q", "u", "a", "l", "i", "t", "y", ":", "1", "0", "0">>

WiderModelAnswers ==
    ModelAnswers \cup { [ok |-> TRUE, text |-> t] : t \in {AnswerHigh, AnswerTop} }

\* the lines an answer of the text model is put together from: a line as
\* asked for, one in small letters without the blank, one whose value is
\* missing or of the wrong kind, one without the colon, and no line
QualityLines ==
    { <<>>, <<"Q", "U", "A", "L", "I", "T", "Y", ":", " ", "6", "0">>, <<"q", "u", "a", "l", "i", "t", "y", ":", "7">>, <<"Q", "U", "A", "L", "I", "T", "Y", ":", " ", "h", "i", "g", "h">>, <<"Q", "U", "A", "L", "I", "T", "Y", ":">>, <<"Q", "u", "a", "l", "i", "t", "y", " ", "6", "0">> }

FormatLines ==
    { <<>>, <<"F", "O", "R", "M", "A", "T", ":", " ", "J", "P", "E", "G">>, <<"f", "o", "r", "m", "a", "t", ":", "p", "n", "g">>, <<"F", "O", "R", "M", "A", "T", ":">>, <<"F", "O", "R", "M", "A", "T", " ", "-", " ", "p", "n", "g">> }

ContextLine == <<"C", "O", "N", "T", "E", "X", "T", ":", " ", "e", "m", "a", "i", "l">>

ReasonLines == { <<>>, <<"R", "E", "A", "S", "O", "N", ":", " ", "s", "m", "a", "l", "l">> }

\* the lines that are there, each ended by a line feed
JoinLines(lines) ==
    LET Ended(l) == IF l = <<>> THEN <<>> ELSE l \o <<"\n">>
    IN  Ended(lines[1]) \o Ended(lines[2]) \o Ended(lines[3])

\* answers to the question about the quality
ParsedAnswers ==
    { [ok |-> TRUE, text |-> JoinLines(<<q, f, ContextLine>>)] :
         q \in QualityLines, f \in FormatLines }

\* answers to the question about the format
ParsedFormatAnswers ==
    { [ok |-> TRUE, text |-> JoinLines(<<f, r, <<>> >>)] :
         f \in FormatLines, r \in ReasonLines }

\* what the call of the detection service may do
DetectionKinds == {"throws", "regions", "other"}

\* the outcome of the call for a file: none (the call throws), the regions
\* of its scene, or a 2xx body that is no array
DetectionAnswer(kind, scene) ==
    CASE kind = "throws" -> [ok |-> FALSE, data |-> EmptyList]
      [] kind = "regions" -> [ok |-> TRUE, data |-> [array |-> TRUE, items |-> scene]]
      [] OTHER -> [ok |-> TRUE, data |-> [array |-> FALSE, items |-> <<>>]]

\* what the length of the encoded buffer may differ by from the size of the
\* original: it is smaller, or larger
BufferDeltas == {0 - 11, 1}

\* length of the file toFile writes: it re-encodes the buffer, into another
\* format when the extension names one
WrittenLength(bufferLength, bufferFormat, fileFormat) ==
    IF fileFormat = bufferFormat THEN bufferLength ELSE bufferLength + 1

(***************************************************************************)
(* State.                                                                  *)
(***************************************************************************)
\* the upload requests that may be in progress at the same time
Requests == {1, 2}

VARIABLES
    db,         \* the Image collection: the records, in order of insertion
    nextId,     \* the next _id the driver generates
    disk,       \* the directory uploads/: path |-> content of the file
    clock,      \* Date.now()
    pc,         \* per upload request: where its handler is suspended
    reqParts,   \* per upload request: the file parts the client sent
    reqFiles,   \* per upload request: req.files, as multer stored them
    reqBody,    \* per upload request: req.body
    idx,        \* per upload request: position of the for loop (1-based)
    regions,    \* per upload request: const regions
    aiRec,      \* per upload request: let aiRecommendation (<<>> is null)
    target,     \* per upload request: let targetFormat, targetQuality
    pending,    \* per upload request: the record being saved and its item
    results,    \* per upload request: const results
    resp,       \* per upload request: the response sent
    recCalls,   \* per upload request: calls of getAIQualityRecommendation
    reply,      \* the last response of one of the other endpoints
    ui,         \* the web client: the state of the component ImageCompressor
    net         \* the web client: its file reads and requests not yet settled

vars ==
    <<db, nextId, disk, clock, pc, reqParts, reqFiles, reqBody, idx, regions,
      aiRec, target, pending, results, resp, recCalls, reply, ui, net>>

\* the state of the server
serverVars ==
    <<db, nextId, disk, clock, pc, reqParts, reqFiles, reqBody, idx, regions,
      aiRec, target, pending, results, resp, recCalls, reply>>

\* the state of the web client
clientVars == <<ui, net>>

\* useState(...) of each piece of state of the component
InitUi ==
    [selectedFiles |-> <<>>, previews |-> <<>>, processing |-> FALSE,
     results |-> <<>>, error |-> <<>>, batchMode |-> FALSE, aiPrompt |-> "",
     showComparison |-> FALSE, gettingAiRecommendation |-> FALSE]

\* nothing is being read and no request is in flight: loads are the
\* Promise.all of the selections whose FileReaders have not all loaded,
\* uploads the bodies of the requests to /api/upload not yet answered,
\* formatRequests and qualityRequests the numbers of requests to
\* /api/ai-format and /api/ai-quality not yet answered, selections the
\* number of selections made
InitNet ==
    [loads |-> {}, uploads |-> {}, formatRequests |-> 0,
     qualityRequests |-> 0, selections |-> 0]

uploadVars ==
    <<pc, reqParts, reqFiles, reqBody, idx, regions, aiRec, target, pending,
      results, resp, recCalls>>

NoTarget == [format |-> <<>>, quality |-> NaN]

NoBody == [format |-> <<>>, quality |-> <<>>, prompt |-> <<>>]

\* a response of an endpoint other than /api/upload, with the request it
\* answers: recommendation is <<>> or <<the recommendation>>, entries are
\* the entries appended to the zip, in order, id is <<>> or <<req.params.id>>,
\* data is the list of the field data, or the one object of it, file is <<>>
\* or <<req.file>>; status 0 with a file is a request not yet answered;
\* answer is <<>> or <<what the text model answered to the handler>>
NoReply ==
    [endpoint |-> "", prompt |-> <<>>, imageIds |-> <<>>, status |-> 0,
     success |-> FALSE, error |-> "", recommendation |-> <<>>,
     zip |-> FALSE, entries |-> <<>>, id |-> <<>>, data |-> <<>>,
     file |-> <<>>, answer |-> <<>>]

Init ==
    /\ db = <<>>
    /\ nextId = 1
    /\ disk = <<>>
    /\ clock = 0
    /\ pc = [r \in Requests |-> "idle"]
    /\ reqParts = [r \in Requests |-> <<>>]
    /\ reqFiles = [r \in Requests |-> <<>>]
    /\ reqBody = [r \in Requests |-> NoBody]
    /\ idx = [r \in Requests |-> 0]
    /\ regions = [r \in Requests |-> EmptyList]
    /\ aiRec = [r \in Requests |-> <<>>]
    /\ target = [r \in Requests |-> NoTarget]
    /\ pending = [r \in Requests |-> <<>>]
    /\ results = [r \in Requests |-> <<>>]
    /\ resp = [r \in Requests |-> NoResponse]
    /\ recCalls = [r \in Requests |-> 0]
    /\ reply = NoReply
    /\ ui = InitUi
    /\ net = InitNet

(***************************************************************************)
(* POST /api/upload.  The handler is cut at its awaits: detectRegions,     *)
(* getAIQualityRecommendation, adaptiveCompress and imageRecord.save().    *)
(***************************************************************************)
\* what multer stores for part i of the request under the suffix sfx[i]
StoredFile(part, suffix) ==
    [originalname |-> part.originalname, mimetype |-> part.mimetype,
     size |-> part.size, path |-> OriginalPath(suffix, part.originalname)]

StoredContent(part) ==
    [size |-> part.size, decodable |-> part.decodable,
     encoding |-> ExtensionFormat(ExtName(part.originalname), <<>>),
     scene |-> part.scene]

\* the directory after multer wrote the parts, one after the other
RECURSIVE StoreAll(_, _, _)
StoreAll(d, parts, sfx) ==
    IF parts = <<>> THEN d
    ELSE StoreAll(WriteFile(d, OriginalPath(Head(sfx), Head(parts).originalname),
                            StoredContent(Head(parts))),
                  Tail(parts), Tail(sfx))

\* uniqueSuffix = Date.now() + '-' + Math.round(Math.random() * 1E9) when
\* the random numbers of one request differ
FreshSuffixes(n) == [i \in 1..n |-> <<clock, i>>]

\* a catch that answers with the items pushed so far
FailUploadPartial(r, message) ==
    /\ resp' = [resp EXCEPT ![r] =
                  [ErrorResponse(500, "Failed to process images", message)
                     EXCEPT !.items = results[r]]]
    /\ pc' = [pc EXCEPT ![r] = "done"]

\* the catch of the handler; message is error.message
FailUpload(r, message) ==
    /\ resp' = [resp EXCEPT ![r] =
                  ErrorResponse(500, "Failed to process images", message)]
    /\ pc' = [pc EXCEPT ![r] = "done"]

\* The request arrives: multer parses it (and the default error handler
\* of Express answers if multer fails), the handler starts, and runs to
\* its first await.
UploadArrives(r, parts, body, sfx) ==
    /\ pc[r] = "idle"
    /\ Len(sfx) = Len(parts)
    /\ reqParts' = [reqParts EXCEPT ![r] = parts]
    /\ clock' = clock + 1
    /\ UNCHANGED <<db, nextId, regions, aiRec, target, pending, results,
                   recCalls, reply>>
    /\ IF MulterError(parts, 0) # ""
       THEN /\ resp' = [resp EXCEPT ![r] =
                          ErrorResponse(500, MulterError(parts, 0), "")]
            /\ pc' = [pc EXCEPT ![r] = "done"]
            /\ UNCHANGED <<disk, reqFiles, reqBody, idx>>
       ELSE IF parts = <<>>
       THEN /\ resp' = [resp EXCEPT ![r] =
                          ErrorResponse(400, "No image files provided", "")]
            /\ pc' = [pc EXCEPT ![r] = "done"]
            /\ reqBody' = [reqBody EXCEPT ![r] = body]
            /\ UNCHANGED <<disk, reqFiles, idx>>
       ELSE /\ disk' = StoreAll(disk, parts, sfx)
            /\ reqFiles' = [reqFiles EXCEPT ![r] =
                              [i \in 1..Len(parts) |-> StoredFile(parts[i], sfx[i])]]
            /\ reqBody' = [reqBody EXCEPT ![r] = body]
            /\ idx' = [idx EXCEPT ![r] = 1]
            /\ pc' = [pc EXCEPT ![r] = "detect"]
            /\ UNCHANGED resp
    /\ UNCHANGED clientVars

\* a loop that takes the files from the end of req.files
CurrentFileFromEnd(r) == reqFiles[r][Len(reqFiles[r]) + 1 - idx[r]]

\* for (const file of req.files): the file of the iteration in progress
CurrentFile(r) == reqFiles[r][idx[r]]

\* detectRegions returns; the handler picks the target format and quality
\* and calls the recommendation client if a prompt was given, the
\* compression engine if not
DetectReturns(r, kinds) ==
    /\ pc[r] = "detect"
    /\ \E kind \in kinds :
          LET scene == IF ExistsSync(disk, CurrentFile(r).path)
                       THEN disk[CurrentFile(r).path].scene ELSE <<>>
          IN  regions' = [regions EXCEPT ![r] =
                            detectRegions(disk, CurrentFile(r).path,
                                          DetectionAnswer(kind, scene))]
    /\ aiRec' = [aiRec EXCEPT ![r] = <<>>]
    /\ target' = [target EXCEPT ![r] =
                    [format |-> RequestFormat(reqBody[r]),
                     quality |-> RequestQuality(reqBody[r])]]
    /\ pc' = [pc EXCEPT ![r] =
                IF PromptGiven(reqBody[r]) THEN "recommend" ELSE "compress"]
    /\ UNCHANGED <<db, nextId, disk, clock, reqParts, reqFiles, reqBody, idx,
                   pending, results, resp, recCalls, reply>>
    /\ UNCHANGED clientVars

\* getAIQualityRecommendation on each answer of the model, worked out once
QualityRecommendations ==
    [answer \in WiderModelAnswers \cup ParsedAnswers |->
        getAIQualityRecommendation(answer)]

\* an override that takes the format of the recommendation and keeps the
\* quality of the request
TargetKeepsQuality(old, aiRecommendation) ==
    [format |-> aiRecommendation.format, quality |-> old.quality]

\* targetFormat = aiRecommendation.format;
\* targetQuality = aiRecommendation.quality
TargetAfterRecommendation(old, aiRecommendation) ==
    [format |-> aiRecommendation.format, quality |-> aiRecommendation.quality]

\* getAIQualityRecommendation returns; its format and quality replace the
\* target
RecommendReturns(r, Answers) ==
    /\ pc[r] = "recommend"
    /\ \E answer \in Answers :
          LET rec == QualityRecommendations[answer]
          IN  /\ aiRec' = [aiRec EXCEPT ![r] = <<rec>>]
              /\ target' = [target EXCEPT ![r] =
                              TargetAfterRecommendation(target[r], rec)]
    /\ recCalls' = [recCalls EXCEPT ![r] = @ + 1]
    /\ pc' = [pc EXCEPT ![r] = "compress"]
    /\ UNCHANGED <<db, nextId, disk, clock, reqParts, reqFiles, reqBody, idx,
                   regions, pending, results, resp, reply>>
    /\ UNCHANGED clientVars

\* adaptiveCompress returns or throws; on return the handler computes the
\* ratio, builds the record and calls save()
CompressReturns(r, deltas) ==
    /\ pc[r] = "compress"
    /\ \E bufferLength \in {CurrentFile(r).size + delta : delta \in deltas} :
          LET file == CurrentFile(r)
              fmt  == target[r].format
              out  == adaptiveCompress(disk, file.path, regions[r], fmt,
                         target[r].quality, bufferLength,
                         WrittenLength(bufferLength, EncoderOf(fmt),
                            ExtensionFormat(file.path.ext, EncoderOf(fmt))))
          IN  IF out.threw
              THEN /\ FailUpload(r, out.error)
                   /\ UNCHANGED <<disk, pending, nextId>>
              ELSE /\ disk' = WriteFile(disk, out.compressedPath,
                                 out.file @@ [scene |-> disk[file.path].scene])
                   /\ pending' = [pending EXCEPT ![r] =
                         << [record |-> NewRecord(nextId, file, reqBody[r],
                                          regions[r], aiRec[r], fmt, out, clock),
                             item |-> ResultItem(nextId, file, regions[r],
                                          aiRec[r], fmt, out)] >>]
                   /\ nextId' = nextId + 1
                   /\ pc' = [pc EXCEPT ![r] = "save"]
                   /\ UNCHANGED resp
    /\ UNCHANGED <<db, clock, reqParts, reqFiles, reqBody, idx, regions, aiRec,
                   target, results, recCalls, reply>>
    /\ UNCHANGED clientVars

\* error.message of a rejected save()
SaveFailed == "the record could not be saved"

\* a save that, when it rejects, takes the records of the request back out
\* of the collection
SaveReturnsRollback(r, stored) ==
    /\ pc[r] = "save"
    /\ IF stored
       THEN /\ db' = Append(db, pending[r][1].record)
            /\ results' = [results EXCEPT ![r] = Append(@, pending[r][1].item)]
            /\ IF idx[r] < Len(reqFiles[r])
               THEN /\ idx' = [idx EXCEPT ![r] = @ + 1]
                    /\ pc' = [pc EXCEPT ![r] = "detect"]
                    /\ UNCHANGED resp
               ELSE /\ resp' = [resp EXCEPT ![r] =
                                  UploadSuccess(Append(results[r], pending[r][1].item))]
                    /\ pc' = [pc EXCEPT ![r] = "done"]
                    /\ UNCHANGED idx
       ELSE /\ FailUpload(r, SaveFailed)
            /\ LET Kept(record) ==
                      \A i \in 1..Len(reqFiles[r]) :
                         record.originalPath # reqFiles[r][i].path
               IN  db' = SelectSeq(db, Kept)
            /\ UNCHANGED <<results, idx>>
    /\ pending' = [pending EXCEPT ![r] = <<>>]
    /\ UNCHANGED <<nextId, disk, clock, reqParts, reqFiles, reqBody, regions,
                   aiRec, target, recCalls, reply>>
    /\ UNCHANGED clientVars

\* a handler whose results array is one array of the module, shared by all
\* requests
SaveReturnsShared(r, stored) ==
    /\ pc[r] = "save"
    /\ IF stored
       THEN /\ db' = Append(db, pending[r][1].record)
            /\ results' = [q \in Requests |-> Append(results[q], pending[r][1].item)]
            /\ IF idx[r] < Len(reqFiles[r])
               THEN /\ idx' = [idx EXCEPT ![r] = @ + 1]
                    /\ pc' = [pc EXCEPT ![r] = "detect"]
                    /\ UNCHANGED resp
               ELSE /\ resp' = [resp EXCEPT ![r] =
                                  UploadSuccess(Append(results[r], pending[r][1].item))]
                    /\ pc' = [pc EXCEPT ![r] = "done"]
                    /\ UNCHANGED idx
       ELSE /\ FailUpload(r, SaveFailed)
            /\ UNCHANGED <<db, results, idx>>
    /\ pending' = [pending EXCEPT ![r] = <<>>]
    /\ UNCHANGED <<nextId, disk, clock, reqParts, reqFiles, reqBody, regions,
                   aiRec, target, recCalls, reply>>
    /\ UNCHANGED clientVars

\* imageRecord.save() resolves or rejects; on success the item is pushed
\* and the loop goes on, or the response is sent after the last file
SaveReturns(r, stored) ==
    /\ pc[r] = "save"
    /\ IF stored
       THEN /\ db' = Append(db, pending[r][1].record)
            /\ results' = [results EXCEPT ![r] = Append(@, pending[r][1].item)]
            /\ IF idx[r] < Len(reqFiles[r])
               THEN /\ idx' = [idx EXCEPT ![r] = @ + 1]
                    /\ pc' = [pc EXCEPT ![r] = "detect"]
                    /\ UNCHANGED resp
               ELSE /\ resp' = [resp EXCEPT ![r] =
                                  UploadSuccess(Append(results[r], pending[r][1].item))]
                    /\ pc' = [pc EXCEPT ![r] = "done"]
                    /\ UNCHANGED idx
       ELSE /\ FailUpload(r, SaveFailed)
            /\ UNCHANGED <<db, results, idx>>
    /\ pending' = [pending EXCEPT ![r] = <<>>]
    /\ UNCHANGED <<nextId, disk, clock, reqParts, reqFiles, reqBody, regions,
                   aiRec, target, recCalls, reply>>
    /\ UNCHANGED clientVars

(***************************************************************************)
(* POST /api/ai-format.                                                    *)
(***************************************************************************)
\* a request to /api/ai-format has stored its file and waits for the two
\* outside services
AiFormatPending ==
    reply.endpoint = "ai-format" /\ reply.status = 0 /\ reply.file # <<>>

\* The request arrives with no part or one: multer stores the file (or
\* fails, and the default error handler of Express answers), and the
\* handler runs to its first await.
AiFormatArrives(parts, sfx) ==
    /\ ~AiFormatPending
    /\ Len(parts) <= 1
    /\ Len(sfx) = Len(parts)
    /\ clock' = clock + 1
    /\ IF MulterError(parts, 0) # ""
       THEN /\ reply' = [NoReply EXCEPT !.endpoint = "ai-format",
                                        !.status = 500,
                                        !.error = MulterError(parts, 0)]
            /\ UNCHANGED disk
       ELSE IF parts = <<>>
       THEN /\ reply' = [NoReply EXCEPT !.endpoint = "ai-format",
                                        !.status = 400,
                                        !.error = "No image file provided"]
            /\ UNCHANGED disk
       ELSE /\ disk' = StoreAll(disk, parts, sfx)
            /\ reply' = [NoReply EXCEPT !.endpoint = "ai-format",
                                        !.file = <<StoredFile(parts[1], sfx[1])>>]
    /\ UNCHANGED <<db, nextId, uploadVars>>
    /\ UNCHANGED clientVars

\* a handler that keeps the file it was sent and files a record of it
AiFormatReturnsKeeping(kinds, Answers) ==
    /\ AiFormatPending
    /\ \E kind \in kinds, answer \in Answers :
          LET file == reply.file[1]
              scene == IF ExistsSync(disk, file.path)
                       THEN disk[file.path].scene ELSE <<>>
              found == detectRegions(disk, file.path, DetectionAnswer(kind, scene))
              recommendation == getAIFormatRecommendation(found, answer)
          IN  /\ db' = Append(db, [id |-> nextId, originalName |-> file.originalname,
                                   originalSize |-> file.size,
                                   compressedSize |-> file.size,
                                   compressionRatio |-> 0,
                                   originalPath |-> file.path,
                                   compressedPath |-> file.path,
                                   aiRegions |-> found.items,
                                   format |-> recommendation.format,
                                   quality |-> DefaultQuality,
                                   aiSuggestion |-> <<>>, promptUsed |-> <<>>,
                                   createdAt |-> clock])
              /\ nextId' = nextId + 1
              /\ reply' = [reply EXCEPT !.status = 200, !.success = TRUE,
                             !.recommendation =
                                <<[format |-> recommendation.format,
                                   reason |-> recommendation.reason,
                                   detectedObjects |-> SliceRegions(found)]>>]
    /\ UNCHANGED <<disk, clock, uploadVars>>
    /\ UNCHANGED clientVars

\* The two services have answered: the handler unlinks the file and sends
\* the recommendation.  unlinkSync throws when the file is gone, and
\* regions.slice throws, after the unlink, when regions is no array.
AiFormatReturns(kinds, Answers) ==
    /\ AiFormatPending
    /\ \E kind \in kinds, answer \in Answers :
          LET file == reply.file[1]
              scene == IF ExistsSync(disk, file.path)
                       THEN disk[file.path].scene ELSE <<>>
              found == detectRegions(disk, file.path, DetectionAnswer(kind, scene))
              recommendation == getAIFormatRecommendation(found, answer)
          IN  IF ~ExistsSync(disk, file.path)
              THEN /\ reply' = [reply EXCEPT !.status = 500,
                                   !.error = "Failed to get format recommendation"]
                   /\ UNCHANGED disk
              ELSE /\ disk' = RemoveFile(disk, file.path)
                   /\ reply' =
                        IF ~found.array
                        THEN [reply EXCEPT !.status = 500,
                                !.error = "Failed to get format recommendation"]
                        ELSE [reply EXCEPT !.status = 200, !.success = TRUE,
                                !.answer = <<answer>>,
                                !.recommendation =
                                   <<[format |-> recommendation.format,
                                      reason |-> recommendation.reason,
                                      detectedObjects |-> SliceRegions(found)]>>]
    /\ UNCHANGED <<db, nextId, clock, uploadVars>>
    /\ UNCHANGED clientVars

(***************************************************************************)
(* POST /api/ai-quality.                                                   *)
(***************************************************************************)
\* prompt is the field of the JSON body, <<>> when absent
AiQuality(prompt, answer) ==
    /\ reply' =
         IF prompt = <<>> \/ prompt[1] = ""
         THEN [NoReply EXCEPT !.endpoint = "ai-quality", !.prompt = prompt,
                              !.status = 400, !.error = "Prompt is required"]
         ELSE [NoReply EXCEPT !.endpoint = "ai-quality", !.prompt = prompt,
                              !.status = 200, !.success = TRUE,
                              !.answer = <<answer>>,
                              !.recommendation = <<QualityRecommendations[answer]>>]
    /\ UNCHANGED <<db, nextId, disk, clock, uploadVars>>
    /\ UNCHANGED clientVars

(***************************************************************************)
(* POST /api/download-batch.                                               *)
(***************************************************************************)
\* An id is a positive number when it has the form of an ObjectId; 0 stands
\* for a value of any other form, which the query cannot cast.
IsObjectId(id) == id >= 1

\* Image.find({ _id: { $in: imageIds } }): the matching records, in the
\* order of the collection
RECURSIVE FindIn(_, _)
FindIn(records, ids) ==
    IF records = <<>> THEN <<>>
    ELSE IF \E i \in 1..Len(ids) : ids[i] = Head(records).id
         THEN <<Head(records)>> \o FindIn(Tail(records), ids)
         ELSE FindIn(Tail(records), ids)

CompressedDash == <<"c", "o", "m", "p", "r", "e", "s", "s", "e", "d", "-">>

\* const fileName = `compressed-${image.format}-${image.originalName}`
ZipName(image) == CompressedDash \o image.format \o <<"-">> \o image.originalName

\* the loop without the test fs.existsSync
RECURSIVE ZipEntriesUnchecked(_, _)
ZipEntriesUnchecked(d, images) ==
    IF images = <<>> THEN <<>>
    ELSE << [name |-> ZipName(Head(images)),
             path |-> Head(images).compressedPath] >>
         \o ZipEntriesUnchecked(d, Tail(images))

\* for (const image of images)
\*   if (fs.existsSync(image.compressedPath)) archive.file(..., { name })
RECURSIVE ZipEntries(_, _)
ZipEntries(d, images) ==
    IF images = <<>> THEN <<>>
    ELSE IF ExistsSync(d, Head(images).compressedPath)
         THEN << [name |-> ZipName(Head(images)),
                  path |-> Head(images).compressedPath] >>
              \o ZipEntries(d, Tail(images))
         ELSE ZipEntries(d, Tail(images))

\* imageIds is the field of the JSON body: <<>> when absent, <<list>> else
DownloadBatch(imageIds) ==
    /\ reply' =
         IF imageIds = <<>> \/ imageIds[1] = <<>>
         THEN [NoReply EXCEPT !.endpoint = "download-batch",
                              !.imageIds = imageIds, !.status = 400,
                              !.error = "No image IDs provided"]
         ELSE IF \E i \in 1..Len(imageIds[1]) : ~IsObjectId(imageIds[1][i])
         THEN [NoReply EXCEPT !.endpoint = "download-batch",
                              !.imageIds = imageIds, !.status = 500,
                              !.error = "Failed to create batch download"]
         ELSE [NoReply EXCEPT !.endpoint = "download-batch",
                              !.imageIds = imageIds, !.status = 200,
                              !.zip = TRUE,
                              !.entries = ZipEntries(disk, FindIn(db, imageIds[1]))]
    /\ UNCHANGED <<db, nextId, disk, clock, uploadVars>>
    /\ UNCHANGED clientVars

(***************************************************************************)
(* GET /api/image/:id.                                                     *)
(***************************************************************************)
\* `${req.protocol}://${req.get('host')}/${path}`
Url(path) == [base |-> "protocol://host/", path |-> path]

\* a handler that stamps the record it serves with the time of the request
GetImageStamping(id) ==
    /\ reply' = [NoReply EXCEPT !.endpoint = "image", !.id = <<id>>,
                                !.status = 200, !.success = TRUE]
    /\ db' = [j \in 1..Len(db) |->
                IF db[j].id = id THEN [db[j] EXCEPT !.createdAt = clock + 1]
                ELSE db[j]]
    /\ UNCHANGED <<nextId, disk, clock, uploadVars>>
    /\ UNCHANGED clientVars

\* Image.findById(id): <<>> is null; the id has the form of an ObjectId
FindById(records, id) ==
    IF \E j \in 1..Len(records) : records[j].id = id
    THEN <<records[CHOOSE j \in 1..Len(records) : records[j].id = id]>>
    ELSE <<>>

\* findById throws a CastError for a value it cannot cast to an ObjectId,
\* and the catch answers
GetImage(id) ==
    /\ reply' =
         IF ~IsObjectId(id)
         THEN [NoReply EXCEPT !.endpoint = "image", !.id = <<id>>,
                              !.status = 500,
                              !.error = "Failed to fetch image details"]
         ELSE IF FindById(db, id) = <<>>
         THEN [NoReply EXCEPT !.endpoint = "image", !.id = <<id>>,
                              !.status = 404, !.error = "Image not found"]
         ELSE LET image == FindById(db, id)[1]
              IN  [NoReply EXCEPT !.endpoint = "image", !.id = <<id>>,
                                  !.status = 200, !.success = TRUE,
                                  !.data = << image @@
                                     [originalUrl |-> Url(image.originalPath),
                                      compressedUrl |-> Url(image.compressedPath)] >>]
    /\ UNCHANGED <<db, nextId, disk, clock, uploadVars>>
    /\ UNCHANGED clientVars

(***************************************************************************)
(* GET /api/recent.                                                        *)
(***************************************************************************)
\* .select('originalName originalSize compressedSize compressionRatio
\*          format quality createdAt'), with the _id
Summary(image) ==
    [id |-> image.id, originalName |-> image.originalName,
     originalSize |-> image.originalSize,
     compressedSize |-> image.compressedSize,
     compressionRatio |-> image.compressionRatio, format |-> image.format,
     quality |-> image.quality, createdAt |-> image.createdAt]

\* a sort by createdAt with the direction left out: oldest first
RECURSIVE OldestFirstOrders(_, _)
OldestFirstOrders(records, S) ==
    IF S = {} THEN {<<>>}
    ELSE UNION { { <<j>> \o rest : rest \in OldestFirstOrders(records, S \ {j}) } :
                 j \in {i \in S : \A k \in S :
                           records[i].createdAt <= records[k].createdAt} }

\* .sort({ createdAt: -1 }) of the records at the positions S: every order
\* newest first; the store may return records of the same createdAt in any
\* order, as the sort names no other key
RECURSIVE SortedOrders(_, _)
SortedOrders(records, S) ==
    IF S = {} THEN {<<>>}
    ELSE UNION { { <<j>> \o rest : rest \in SortedOrders(records, S \ {j}) } :
                 j \in {i \in S : \A k \in S :
                           records[i].createdAt >= records[k].createdAt} }

\* .limit(10)
Limit(order) ==
    SubSeq(order, 1, IF Len(order) < RecentLimit THEN Len(order) ELSE RecentLimit)

Recent ==
    /\ \E order \in SortedOrders(db, 1..Len(db)) :
          reply' = [NoReply EXCEPT !.endpoint = "recent", !.status = 200,
                                   !.success = TRUE,
                                   !.data = [i \in 1..Len(Limit(order)) |->
                                               Summary(db[Limit(order)[i]])]]
    /\ UNCHANGED <<db, nextId, disk, clock, uploadVars>>
    /\ UNCHANGED clientVars

(***************************************************************************)
(* GET /api/health.                                                        *)
(***************************************************************************)
Health ==
    /\ reply' = [NoReply EXCEPT !.endpoint = "health", !.status = 200,
                                !.data = <<[status |-> "OK"]>>]
    /\ UNCHANGED <<db, nextId, disk, clock, uploadVars>>
    /\ UNCHANGED clientVars

(***************************************************************************)
(* The uploads directory is an ordinary directory: a file of it may be     *)
(* removed from outside the service (the handlers test existsSync).         *)
(***************************************************************************)
ExternalRemove(p) ==
    /\ ExistsSync(disk, p)
    /\ disk' = RemoveFile(disk, p)
    /\ UNCHANGED <<db, nextId, clock, uploadVars, reply>>
    /\ UNCHANGED clientVars

(***************************************************************************)
(* Specification of the service with its other endpoints: uploads of       *)
(* photos with the default body, requests to the other endpoints at any    *)
(* moment, and compressed files disappearing.                              *)
(***************************************************************************)
PhotoLists == SeqsUpTo({PhotoA, PhotoB}, MaxFiles) \ {<<>>}

\* the detection service answers with the regions or not at all
PlainDetection == {"throws", "regions"}

\* the encoded buffer is smaller than the original
OneDelta == {0 - 11}

\* the lists of ids a download may name: ids of stored records and of no
\* record, and a value that is no id
IdLists == SeqsUpTo({1, 2, 3}, 2) \cup {<<0>>, <<1, 0>>}

Prompts == {<<>>, <<"">>, <<"for email">>}

NextApi ==
    \/ /\ pc[1] = "idle"
       /\ \E parts \in PhotoLists :
             UploadArrives(1, parts, NoBody, FreshSuffixes(Len(parts)))
    \/ DetectReturns(1, PlainDetection)
    \/ CompressReturns(1, OneDelta)
    \/ \E stored \in BOOLEAN : SaveReturns(1, stored)
    \/ \E prompt \in Prompts :
          \E answer \in IF prompt = <<"for email">> THEN ModelAnswers
                         ELSE {[ok |-> FALSE, text |-> <<>>]} :
             AiQuality(prompt, answer)
    \/ \E ids \in {<<>>} \cup {<<l>> : l \in IdLists} : DownloadBatch(ids)
    \/ \E p \in {q \in DOMAIN disk : q.kind = "compressed-"} : ExternalRemove(p)

SpecApi == Init /\ [][NextApi]_vars

(***************************************************************************)
(* Specification of one upload request with every input and every answer   *)
(* of the outside services.                                                *)
(***************************************************************************)
Next ==
    \/ /\ pc[1] = "idle"
       /\ \E parts \in FileLists, body \in Bodies :
             UploadArrives(1, parts, body, FreshSuffixes(Len(parts)))
    \/ DetectReturns(1, DetectionKinds)
    \/ RecommendReturns(1, ModelAnswers)
    \/ CompressReturns(1, BufferDeltas)
    \/ \E stored \in BOOLEAN : SaveReturns(1, stored)

Spec == Init /\ [][Next]_vars

(***************************************************************************)
(* Specification of an upload while the detection service is unreachable:  *)
(* every call of it throws.                                                *)
(***************************************************************************)
DetectionDown == {"throws"}

NextDetectionDown ==
    \/ /\ pc[1] = "idle"
       /\ \E parts \in FileLists, body \in Bodies :
             UploadArrives(1, parts, body, FreshSuffixes(Len(parts)))
    \/ DetectReturns(1, DetectionDown)
    \/ RecommendReturns(1, ModelAnswers)
    \/ CompressReturns(1, BufferDeltas)
    \/ \E stored \in BOOLEAN : SaveReturns(1, stored)

SpecDetectionDown == Init /\ [][NextDetectionDown]_vars

(***************************************************************************)
(* Specification of the service while the text model is unreachable: every *)
(* call of it throws.                                                      *)
(***************************************************************************)
Unreachable == [ok |-> FALSE, text |-> <<>>]

NextModelDown ==
    \/ /\ pc[1] = "idle"
       /\ \E parts \in PhotoLists, body \in Bodies :
             UploadArrives(1, parts, body, FreshSuffixes(Len(parts)))
    \/ DetectReturns(1, PlainDetection)
    \/ RecommendReturns(1, {Unreachable})
    \/ CompressReturns(1, OneDelta)
    \/ \E stored \in BOOLEAN : SaveReturns(1, stored)
    \/ \E prompt \in Prompts : AiQuality(prompt, Unreachable)

SpecModelDown == Init /\ [][NextModelDown]_vars

(***************************************************************************)
(* Specification of the upload of one photo with every quality of 0..110,  *)
(* or one that is no number, and every format of the four as parameters of *)
(* the request, or with a prompt and a wider choice of answers of the text *)
(* model.                                                                  *)
(***************************************************************************)
\* the decimal text of a number of 0..999, as a client writes it
Decimal(n) ==
    IF n < 10 THEN <<Digits[n + 1]>>
    ELSE IF n < 100 THEN <<Digits[(n \div 10) + 1], Digits[(n % 10) + 1]>>
    ELSE <<Digits[(n \div 100) + 1], Digits[((n \div 10) % 10) + 1],
           Digits[(n % 10) + 1]>>

QualityBodies ==
    [format : {<<f>> : f \in Formats},
     quality : {<<Decimal(q)>> : q \in 0..110} \cup {<<QBad>>},
     prompt : {<<>>}]
    \cup
    { [format |-> <<Avif>>, quality |-> <<Q70>>, prompt |-> <<"for email">>] }

NextQualities ==
    \/ /\ pc[1] = "idle"
       /\ \E photo \in {PhotoA, PhotoB}, body \in QualityBodies :
             UploadArrives(1, <<photo>>, body, FreshSuffixes(1))
    \/ DetectReturns(1, PlainDetection)
    \/ RecommendReturns(1, WiderModelAnswers)
    \/ CompressReturns(1, OneDelta)
    \/ \E stored \in BOOLEAN : SaveReturns(1, stored)

SpecQualities == Init /\ [][NextQualities]_vars

(***************************************************************************)
(* Specification of the service started on a collection that holds the     *)
(* records of earlier runs: uploads, GET /api/recent and GET /api/image    *)
(* at any moment, and time passing while a file is compressed.             *)
(***************************************************************************)
\* a record of an earlier run, created at time t
StoredRecord(id, t) ==
    [id |-> id,
     originalName |-> PhotoB.originalname,
     originalSize |-> PhotoB.size,
     compressedSize |-> PhotoB.size - 11,
     compressionRatio |-> compressionRatio(PhotoB.size, PhotoB.size - 11),
     originalPath |-> OriginalPath(<<0, id>>, PhotoB.originalname),
     compressedPath |-> CompressedPath(OriginalPath(<<0, id>>, PhotoB.originalname), Webp),
     aiRegions |-> <<>>,
     format |-> Webp,
     quality |-> DefaultQuality,
     aiSuggestion |-> <<>>,
     promptUsed |-> <<>>,
     createdAt |-> t]

\* n records in the order they were stored, the oldest tie of them created
\* at the same millisecond, the others one after the other
StoredCollection(n, tie) ==
    [i \in 1..n |-> StoredRecord(i, IF i <= tie THEN 1 ELSE i)]

InitStored ==
    /\ \E n \in 0..MaxStored, tie \in {0, 2, 3} :
          /\ tie <= n
          /\ db = StoredCollection(n, tie)
          /\ nextId = n + 1
          /\ clock = n + 1
    /\ disk = <<>>
    /\ pc = [r \in Requests |-> "idle"]
    /\ reqParts = [r \in Requests |-> <<>>]
    /\ reqFiles = [r \in Requests |-> <<>>]
    /\ reqBody = [r \in Requests |-> NoBody]
    /\ idx = [r \in Requests |-> 0]
    /\ regions = [r \in Requests |-> EmptyList]
    /\ aiRec = [r \in Requests |-> <<>>]
    /\ target = [r \in Requests |-> NoTarget]
    /\ pending = [r \in Requests |-> <<>>]
    /\ results = [r \in Requests |-> <<>>]
    /\ resp = [r \in Requests |-> NoResponse]
    /\ recCalls = [r \in Requests |-> 0]
    /\ reply = NoReply
    /\ ui = InitUi
    /\ net = InitNet

\* a millisecond passes while a file of request r is compressed, once per
\* file at most
Tick(r) ==
    /\ pc[r] = "compress"
    /\ clock < MaxStored + MaxFiles + 2
    /\ db # <<>>
    /\ db[Len(db)].createdAt = clock
    /\ clock' = clock + 1
    /\ UNCHANGED <<db, nextId, disk, uploadVars, reply>>
    /\ UNCHANGED clientVars

NextStored ==
    \/ /\ pc[1] = "idle"
       /\ \E parts \in SeqsUpTo({PhotoB}, MaxFiles) \ {<<>>} :
             UploadArrives(1, parts, NoBody, FreshSuffixes(Len(parts)))
    \/ DetectReturns(1, DetectionDown)
    \/ Tick(1)
    \/ CompressReturns(1, OneDelta)
    \/ \E stored \in BOOLEAN : SaveReturns(1, stored)
    \/ Recent
    \/ \E id \in {0, 1, nextId} : GetImage(id)

SpecStored == InitStored /\ [][NextStored]_vars

(***************************************************************************)
(* Specification of two uploads in flight at once: each handler runs from  *)
(* one await to the next, and at every await the other may take its step.  *)
(* The two requests arrive at different times, so the names multer gives   *)
(* their files differ.                                                     *)
(***************************************************************************)
\* what the clients send: both the same photo one or more times, so that
\* the stored files differ in the generated name only; the first no field,
\* the second with or without a prompt
FirstBatches == SeqsUpTo({PhotoA}, MaxFiles) \ {<<>>}

SecondBatches == SeqsUpTo({PhotoA}, MaxFiles) \ {<<>>}

SecondBodies ==
    { NoBody, [format |-> <<Webp>>, quality |-> <<Q70>>, prompt |-> <<"for email">>] }

\* the text model answers in full or not at all
TwoAnswers == { Unreachable, [ok |-> TRUE, text |-> AnswerFull] }

NextConcurrent ==
    \/ /\ pc[1] = "idle"
       /\ \E parts \in FirstBatches :
             UploadArrives(1, parts, NoBody, FreshSuffixes(Len(parts)))
    \/ /\ pc[2] = "idle"
       /\ \E parts \in SecondBatches, body \in SecondBodies :
             UploadArrives(2, parts, body, FreshSuffixes(Len(parts)))
    \/ \E r \in Requests : DetectReturns(r, DetectionDown)
    \/ \E r \in Requests : RecommendReturns(r, TwoAnswers)
    \/ \E r \in Requests : CompressReturns(r, OneDelta)
    \/ \E r \in Requests, stored \in BOOLEAN : SaveReturns(r, stored)

SpecConcurrent == Init /\ [][NextConcurrent]_vars

(***************************************************************************)
(* Specification of an upload whose files are stored within one            *)
(* millisecond: Math.random may draw the same number for two of them.      *)
(***************************************************************************)
\* the two numbers Math.round(Math.random() * 1E9) may give
RandomDraws == {1, 2}

\* the suffixes of n files stored at the same Date.now()
DrawnSuffixes(n) == [1..n -> {<<clock, x>> : x \in RandomDraws}]

PngLists == SeqsUpTo({PhotoA, PhotoC}, MaxFiles) \ {<<>>}

PngBodies == { NoBody, [format |-> <<Png>>, quality |-> <<Q70>>, prompt |-> <<>>] }

NextSameMillisecond ==
    \/ /\ pc[1] = "idle"
       /\ \E parts \in PngLists, body \in PngBodies :
             \E sfx \in DrawnSuffixes(Len(parts)) :
                UploadArrives(1, parts, body, sfx)
    \/ DetectReturns(1, PlainDetection)
    \/ CompressReturns(1, BufferDeltas)
    \/ \E stored \in BOOLEAN : SaveReturns(1, stored)

SpecSameMillisecond == Init /\ [][NextSameMillisecond]_vars

(***************************************************************************)
(* Specification of uploads of one photo in which the detection service    *)
(* finds one region, for a range of labels.                                *)
(***************************************************************************)
\* labels the detection service may give a region: keywords in either
\* case, words that hold a keyword, words that hold none
Labels ==
    { <<"p", "e", "r", "s", "o", "n">>,
      <<"P", "e", "r", "s", "o", "n">>,
      <<"F", "A", "C", "E">>,
      <<"s", "u", "r", "f", "a", "c", "e">>,
      <<"T", "e", "x", "t">>,
      <<"n", "o", "t", "e", "b", "o", "o", "k">>,
      <<"L", "A", "P", "T", "O", "P">>,
      <<"c", "e", "l", "l", " ", "p", "h", "o", "n", "e">>,
      <<"C", "e", "l", "l", " ", "P", "h", "o", "n", "e">>,
      <<"t", "e", "l", "e", "p", "h", "o", "n", "e">>,
      <<"p", "h", "o", "n", "e">>,
      <<"c", "e", "l", "l", "p", "h", "o", "n", "e">>,
      <<"c", "a", "t">>,
      <<"d", "o", "g">> }

\* a region with the label, one with an empty label and one with none
LabelledRegions ==
    { [label |-> <<l>>] : l \in Labels } \cup { [label |-> << <<>> >>], [label |-> <<>>] }

\* PhotoA with the one region in its scene
LabelledPhotos == { [PhotoA EXCEPT !.scene = <<region>>] : region \in LabelledRegions }

LabelBodies ==
    [format : {<<Webp>>}, quality : {<<>>, <<Q70>>, <<Q97>>}, prompt : {<<>>}]

NextLabels ==
    \/ /\ pc[1] = "idle"
       /\ \E photo \in LabelledPhotos, body \in LabelBodies :
             UploadArrives(1, <<photo>>, body, FreshSuffixes(1))
    \/ DetectReturns(1, PlainDetection)
    \/ CompressReturns(1, OneDelta)
    \/ \E stored \in BOOLEAN : SaveReturns(1, stored)

SpecLabels == Init /\ [][NextLabels]_vars

(***************************************************************************)
(* Specification of the whole service: an upload in progress and requests  *)
(* to every other endpoint at any moment.  A request to an endpoint other  *)
(* than /api/upload is answered before the next of them arrives.           *)
(***************************************************************************)
\* what a client may send to /api/ai-format: nothing, a photo, a text file
FormatParts == { <<>>, <<PhotoB>>, <<Notes>> }

ServiceBatches == SeqsUpTo({PhotoA}, MaxFiles) \ {<<>>}

NextService ==
    \/ /\ pc[1] = "idle"
       /\ \E parts \in ServiceBatches :
             UploadArrives(1, parts, NoBody, FreshSuffixes(Len(parts)))
    \/ DetectReturns(1, DetectionDown)
    \/ CompressReturns(1, OneDelta)
    \/ \E stored \in BOOLEAN : SaveReturns(1, stored)
    \/ /\ clock <= MaxFormatRequests
       /\ \E parts \in FormatParts : AiFormatArrives(parts, FreshSuffixes(Len(parts)))
    \/ AiFormatReturns(DetectionKinds, FormatAnswers)
    \/ /\ ~AiFormatPending
       /\ \E prompt \in {<<>>, <<"for email">>} : AiQuality(prompt, Unreachable)
    \/ /\ ~AiFormatPending
       /\ \E ids \in {<<>>, << <<1, 2>> >>} : DownloadBatch(ids)
    \/ /\ ~AiFormatPending
       /\ \E id \in {0, 1, nextId} : GetImage(id)
    \/ /\ ~AiFormatPending
       /\ Recent
    \/ /\ ~AiFormatPending
       /\ Health
    \/ /\ AiFormatPending
       /\ ExternalRemove(reply.file[1].path)

SpecService == Init /\ [][NextService]_vars

(***************************************************************************)
(* Specification of the two recommendation endpoints with answers of the   *)
(* text model that hold, or lack, the lines the clients look for.          *)
(***************************************************************************)
NextParsing ==
    \/ /\ ~AiFormatPending
       /\ \E prompt \in {<<>>, <<"for email">>}, answer \in ParsedAnswers :
             AiQuality(prompt, answer)
    \/ /\ clock <= MaxFormatRequests
       /\ AiFormatArrives(<<PhotoB>>, FreshSuffixes(1))
    \/ AiFormatReturns(PlainDetection, ParsedFormatAnswers)

SpecParsing == Init /\ [][NextParsing]_vars

(***************************************************************************)
(* The web client: the component ImageCompressor.  A handler runs to its   *)
(* end in one step, together with the effect its state changes trigger;    *)
(* a FileReader that loads and a request that is answered are steps of     *)
(* their own.  The server is taken to be online.                           *)
(***************************************************************************)
\* a File object: the files of one selection are new objects, told from
\* those of every other selection by sel; ok tells that it is an image of
\* at most 10 MB
ClientFile(sel, i, ok) == [sel |-> sel, name |-> i, ok |-> ok]

\* e.target.result of the FileReader that read the file
DataUrl(file) == [dataOf |-> file]

\* the filter of handleFileSelect
RECURSIVE ValidFiles(_)
ValidFiles(files) ==
    IF files = <<>> THEN <<>>
    ELSE IF Head(files).ok THEN <<Head(files)>> \o ValidFiles(Tail(files))
    ELSE ValidFiles(Tail(files))

\* array.filter((_, i) => i !== index), index counted from 1
Without(list, index) ==
    [i \in 1..(IF index \in 1..Len(list) THEN Len(list) - 1 ELSE Len(list)) |->
        IF i < index THEN list[i] ELSE list[i + 1]]

PleaseSelectValid == "Please select valid image files (JPG, PNG, WebP)"

\* clearAll: the state it leaves
Cleared(state) ==
    [state EXCEPT !.selectedFiles = <<>>, !.previews = <<>>, !.results = <<>>,
                  !.error = <<>>, !.aiPrompt = "", !.showComparison = FALSE,
                  !.batchMode = FALSE]

\* useEffect(..., [selectedFiles]) after a handler gave selectedFiles a
\* new array: getAIFormatRecommendation(selectedFiles[0]) up to its await
AutoRecommend(state, pendingWork) ==
    IF state.selectedFiles # <<>> /\ state.aiPrompt = ""
    THEN [ui |-> [state EXCEPT !.gettingAiRecommendation = TRUE],
          net |-> [pendingWork EXCEPT !.formatRequests = @ + 1]]
    ELSE [ui |-> state, net |-> pendingWork]

\* handleFileSelect(files), from the file input or a drop
HandleFileSelect(oks) ==
    /\ net.selections < MaxSelections
    /\ LET sel == net.selections + 1
           files == [i \in 1..Len(oks) |-> ClientFile(sel, i, oks[i])]
           validFiles == ValidFiles(files)
           counted == [net EXCEPT !.selections = sel]
       IN  IF validFiles = <<>>
           THEN /\ ui' = [ui EXCEPT !.error = <<PleaseSelectValid>>]
                /\ net' = counted
           ELSE LET state == [ui EXCEPT !.selectedFiles = validFiles,
                                        !.batchMode = Len(validFiles) > 1,
                                        !.error = <<>>, !.results = <<>>,
                                        !.showComparison = FALSE]
                    reading == [counted EXCEPT !.loads = @ \cup
                                  {[files |-> validFiles,
                                    left |-> 1..Len(validFiles)]}]
                IN  /\ ui' = AutoRecommend(state, reading).ui
                    /\ net' = AutoRecommend(state, reading).net
    /\ UNCHANGED serverVars

\* reader.onload of one file of a selection; when it is the last of the
\* selection, Promise.all resolves and setPreviews takes the data URLs
ReaderLoads(load, i) ==
    /\ load \in net.loads
    /\ i \in load.left
    /\ IF load.left = {i}
       THEN /\ net' = [net EXCEPT !.loads = @ \ {load}]
            /\ ui' = [ui EXCEPT !.previews =
                        [j \in 1..Len(load.files) |-> DataUrl(load.files[j])]]
       ELSE /\ net' = [net EXCEPT !.loads =
                         (@ \ {load}) \cup {[load EXCEPT !.left = @ \ {i}]}]
            /\ UNCHANGED ui
    /\ UNCHANGED serverVars

\* the remove button on the preview at index
RemoveSelected(index) ==
    /\ ui.selectedFiles # <<>>
    /\ index \in 1..Len(ui.previews)
    /\ LET newFiles == Without(ui.selectedFiles, index)
           newPreviews == Without(ui.previews, index)
           state == IF newFiles = <<>> THEN Cleared(ui)
                    ELSE [ui EXCEPT !.selectedFiles = newFiles,
                                    !.previews = newPreviews]
       IN  /\ ui' = AutoRecommend(state, net).ui
           /\ net' = AutoRecommend(state, net).net
    /\ UNCHANGED serverVars

\* the button Clear All, shown while files are selected
ClearAll ==
    /\ ui.selectedFiles # <<>>
    /\ ui' = Cleared(ui)
    /\ UNCHANGED <<net, serverVars>>

\* the text area and the suggestions: setAiPrompt
SetAiPrompt(prompt) ==
    /\ ui.selectedFiles # <<>>
    /\ prompt # ui.aiPrompt
    /\ ui' = [ui EXCEPT !.aiPrompt = prompt]
    /\ UNCHANGED <<net, serverVars>>

\* the button Get AI Recommendation, shown with a prompt and disabled while
\* gettingAiRecommendation: getAIQualityRecommendation(aiPrompt) up to its
\* await
ClickRecommend ==
    /\ ui.selectedFiles # <<>>
    /\ ui.aiPrompt # ""
    /\ ~ui.gettingAiRecommendation
    /\ ui' = [ui EXCEPT !.gettingAiRecommendation = TRUE]
    /\ net' = [net EXCEPT !.qualityRequests = @ + 1]
    /\ UNCHANGED serverVars

\* what a request may end with: a success body, another body, a rejection
Outcomes == {"success", "failure", "throws"}

\* the rest of getAIFormatRecommendation when /api/ai-format answers
FormatAnswered(outcome) ==
    /\ net.formatRequests > 0
    /\ net' = [net EXCEPT !.formatRequests = @ - 1]
    /\ ui' = [ui EXCEPT !.gettingAiRecommendation = FALSE]
    /\ UNCHANGED serverVars

\* the rest of getAIQualityRecommendation when /api/ai-quality answers
QualityAnswered(outcome) ==
    /\ net.qualityRequests > 0
    /\ net' = [net EXCEPT !.qualityRequests = @ - 1]
    /\ ui' = [ui EXCEPT !.gettingAiRecommendation = FALSE,
                        !.error = IF outcome = "throws"
                                  THEN <<"Failed to get AI recommendation">>
                                  ELSE @]
    /\ UNCHANGED serverVars

\* the button Compress, disabled while processing: compressImages up to
\* its await
CompressImages ==
    /\ ui.selectedFiles # <<>>
    /\ ~ui.processing
    /\ ui' = [ui EXCEPT !.processing = TRUE, !.error = <<>>]
    /\ net' = [net EXCEPT !.uploads = @ \cup {[files |-> ui.selectedFiles]}]
    /\ UNCHANGED serverVars

\* the rest of compressImages when /api/upload answers; a result is told by
\* the file it was made of
UploadAnswered(upload, outcome) ==
    /\ upload \in net.uploads
    /\ net' = [net EXCEPT !.uploads = @ \ {upload}]
    /\ ui' = CASE outcome = "success" ->
                    [ui EXCEPT !.results = [i \in 1..Len(upload.files) |->
                                              [of |-> upload.files[i]]],
                               !.showComparison = TRUE,
                               !.processing = FALSE]
               [] outcome = "failure" ->
                    [ui EXCEPT !.error = <<"Failed to compress images">>,
                               !.processing = FALSE]
               [] OTHER ->
                    [ui EXCEPT !.error = <<"Network error. Please check if the server is running.">>,
                               !.processing = FALSE]
    /\ UNCHANGED serverVars

\* what a selection may hold: up to MaxFiles files, each valid or not
Selections == SeqsUpTo(BOOLEAN, MaxFiles) \ {<<>>}

NextClient ==
    \/ \E oks \in Selections : HandleFileSelect(oks)
    \/ \E load \in net.loads : \E i \in load.left : ReaderLoads(load, i)
    \/ \E index \in 1..MaxFiles : RemoveSelected(index)
    \/ ClearAll
    \/ \E prompt \in {"", "for email"} : SetAiPrompt(prompt)
    \/ ClickRecommend
    \/ \E outcome \in Outcomes : FormatAnswered(outcome)
    \/ \E outcome \in Outcomes : QualityAnswered(outcome)
    \/ CompressImages
    \/ \E upload \in net.uploads, outcome \in Outcomes : UploadAnswered(upload, outcome)

SpecClient == Init /\ [][NextClient]_vars

(***************************************************************************)
(* Properties.                                                             *)
(***************************************************************************)
\* the parts of request r are images multer and the decoder take
ValidImages(r) ==
    /\ reqParts[r] # <<>>
    /\ Len(reqParts[r]) <= 10
    /\ \A i \in 1..Len(reqParts[r]) :
          /\ SubSeq(reqParts[r][i].mimetype, 1, 6) = <<"i", "m", "a", "g", "e", "/">>
          /\ reqParts[r][i].size <= 10 * 1024 * 1024
          /\ reqParts[r][i].decodable

\* ratio, in hundredths of a percent, is a hundredth nearest to
\* (o - c) / o * 100
NearestHundredth(ratio, o, c) ==
    LET e == 2 * (ratio * o - 10000 * (o - c))
    IN  o > 0 /\ e <= o /\ 0 - o <= e

\* C1: every record POST /api/upload persisted holds as compressionRatio
\* (originalSize - compressedSize) / originalSize * 100 rounded to two
\* decimals, worked out from the two sizes of that record, and the item of
\* the response for the file carries the same three values.
RatioIsRounded ==
    /\ \A j \in 1..Len(db) :
          NearestHundredth(db[j].compressionRatio, db[j].originalSize,
                           db[j].compressedSize)
    /\ \A r \in Requests :
          /\ \A i \in 1..Len(resp[r].items) :
                \E j \in 1..Len(db) :
                   /\ db[j].id = resp[r].items[i].id
                   /\ db[j].originalSize = resp[r].items[i].originalSize
                   /\ db[j].compressedSize = resp[r].items[i].compressedSize
                   /\ db[j].compressionRatio = resp[r].items[i].compressionRatio
          /\ resp[r].status = 200 => Len(resp[r].items) = Len(db)

\* an upload answered with two items: one of a file that shrank, with a
\* ratio that cutting off and rounding tell apart, one of a file that grew
RatioIsRoundedWitness ==
    /\ resp[1].status = 200
    /\ Len(resp[1].items) = 2
    /\ resp[1].items[1].originalSize = 30
    /\ resp[1].items[1].compressedSize = 19
    /\ resp[1].items[1].compressionRatio = 3667
    /\ resp[1].items[2].compressionRatio < 0

\* C2: an upload with a file whose MIME type does not start with image/ is
\* answered with HTTP 400, and no record is created for a file of it.
NonImageAnswered400 ==
    \A r \in Requests :
       (/\ pc[r] = "done"
        /\ \E i \in 1..Len(reqParts[r]) :
              SubSeq(reqParts[r][i].mimetype, 1, 6) # <<"i", "m", "a", "g", "e", "/">>)
       => resp[r].status = 400 /\ db = <<>>

\* the errors multer hands over while it parses the request
MulterErrors ==
    {"MulterError: File too large", "MulterError: Unexpected field",
     "Error: Only image files are allowed!"}

DetectionDownUploadSucceeds ==
    /\ \A j \in 1..Len(db) : db[j].aiRegions = <<>>
    /\ \A r \in Requests :
          /\ \A i \in 1..Len(resp[r].items) : resp[r].items[i].regions = <<>>
          /\ (/\ pc[r] = "done"
              /\ ValidImages(r)
              /\ target[r].quality >= 1
              /\ target[r].quality <= 100)
             => \/ /\ resp[r].status = 200
                   /\ resp[r].success
                   /\ Len(resp[r].items) = Len(reqParts[r])
                   /\ Len(db) = Len(reqParts[r])
                \/ resp[r].details = "the record could not be saved"

\* a successful upload of the photo of a person and the photo of a cat
\* whose records hold no region
DetectionDownUploadSucceedsWitness ==
    /\ pc[1] = "done"
    /\ resp[1].status = 200
    /\ Len(reqParts[1]) = 2
    /\ reqParts[1][1].scene # <<>>
    /\ Len(db) = 2
    /\ db[1].aiRegions = <<>>
    /\ db[2].aiRegions = <<>>

\* C5: an upload of valid images, with a prompt or with a quality of its
\* own the codec takes, succeeds and creates its records whatever the two
\* outside services answer, unless the store fails.
DegradedServiceNeverBlocks ==
    \A r \in Requests :
       (/\ pc[r] = "done"
        /\ ValidImages(r)
        /\ \/ reqBody[r].prompt \notin {<<>>, <<"">>}
           \/ reqBody[r].quality \in {<<>>, <<Q70>>, <<Q88>>, <<Q97>>}
        /\ resp[r].details # "the record could not be saved")
       => /\ resp[r].status = 200
          /\ Len(db) = Len(reqParts[r])

\* C6: a POST /api/ai-quality with a non-empty prompt, while the text model
\* is unreachable, is answered with success and with the recommendation
\* {quality: 80, format: 'webp', context: 'Default optimization'}.
ModelDownDefaultRecommendation ==
    (/\ reply.endpoint = "ai-quality"
     /\ reply.prompt # <<>>
     /\ reply.prompt # <<"">>)
    => /\ reply.status = 200
       /\ reply.success
       /\ reply.recommendation =
            << [quality |-> 80,
                format |-> <<"w", "e", "b", "p">>,
                context |-> <<"D", "e", "f", "a", "u", "l", "t", " ", "o",
                              "p", "t", "i", "m", "i", "z", "a", "t", "i",
                              "o", "n">>] >>

ModelDownDefaultRecommendationWitness ==
    /\ reply.endpoint = "ai-quality"
    /\ reply.prompt = <<"for email">>
    /\ reply.status = 200
    /\ reply.recommendation # <<>>

\* a region list holds a label that contains, in lower case, one of the
\* six important words
HoldsImportantLabel(list) ==
    \E i \in 1..Len(list) :
       /\ list[i].label # <<>>
       /\ \E w \in {<<"p", "e", "r", "s", "o", "n">>, <<"f", "a", "c", "e">>,
                    <<"t", "e", "x", "t">>, <<"b", "o", "o", "k">>,
                    <<"l", "a", "p", "t", "o", "p">>,
                    <<"c", "e", "l", "l", " ", "p", "h", "o", "n", "e">>} :
             Includes(ToLowerCase(list[i].label[1]), w)

\* the quality a request asks for with the two digits it sent
AskedQuality(r) ==
    LET text == reqBody[r].quality[1]
    IN  10 * DigitValue(text[1]) + DigitValue(text[2])

\* C7: a successful upload of n valid images with no prompt, a format f of
\* the four and a quality q creates n records, one per file, and answers
\* with n items in the order of the files, as an array exactly when n > 1;
\* every item has format f and a quality of at least q, above q only for a
\* file on which an important label was detected.
PlainBatchUpload ==
    \A r \in Requests :
       (/\ pc[r] = "done"
        /\ resp[r].status = 200
        /\ reqBody[r].prompt \in {<<>>, <<"">>}
        /\ reqBody[r].format \in {<<Jpeg>>, <<Webp>>, <<Avif>>, <<Png>>}
        /\ reqBody[r].quality \in {<<Q70>>, <<Q88>>, <<Q97>>})
       => LET n == Len(reqParts[r])
              items == resp[r].items
          IN  /\ n >= 1 /\ n <= 10
              /\ Len(db) = n
              /\ Len(items) = n
              /\ resp[r].array = (n > 1)
              /\ resp[r].batch = (n > 1)
              /\ \A i \in 1..n :
                    /\ items[i].originalName = reqParts[r][i].originalname
                    /\ items[i].originalSize = reqParts[r][i].size
                    /\ db[i].id = items[i].id
                    /\ db[i].originalName = reqParts[r][i].originalname
                    /\ db[i].originalPath = reqFiles[r][i].path
                    /\ items[i].format = reqBody[r].format[1]
                    /\ db[i].format = reqBody[r].format[1]
                    /\ items[i].quality >= AskedQuality(r)
                    /\ db[i].quality = items[i].quality
                    /\ items[i].quality > AskedQuality(r)
                          => HoldsImportantLabel(db[i].aiRegions)

\* a batch of two at quality 70 answered with an array: the photo of the
\* person at 80, the photo of the cat at 70
PlainBatchUploadWitness ==
    /\ pc[1] = "done"
    /\ resp[1].status = 200
    /\ resp[1].array
    /\ reqBody[1].prompt = <<>>
    /\ reqBody[1].format = <<Avif>>
    /\ reqBody[1].quality = <<Q70>>
    /\ Len(resp[1].items) = 2
    /\ resp[1].items[1].quality = 80
    /\ resp[1].items[2].quality = 70

\* the records a download of the ids may take: known, and with a compressed
\* file on disk
Downloadable(ids) ==
    {j \in 1..Len(db) :
        /\ \E i \in 1..Len(ids) : ids[i] = db[j].id
        /\ db[j].compressedPath \in DOMAIN disk}

\* C8: a POST /api/download-batch with a non-empty list of record ids
\* writes a zip with exactly one entry for every requested id that has a
\* record whose compressed file is on disk, and no other entry; two such
\* records of the same format and originalName both have their entry.
ZipHoldsExistingFiles ==
    [][(/\ reply' # reply
        /\ reply'.endpoint = "download-batch"
        /\ reply'.imageIds # <<>>
        /\ reply'.imageIds[1] # <<>>
        /\ \A i \in 1..Len(reply'.imageIds[1]) : reply'.imageIds[1][i] >= 1)
       => LET ids == reply'.imageIds[1]
              entries == reply'.entries
          IN  /\ reply'.status = 200
              /\ reply'.zip
              /\ Len(entries) = Cardinality(Downloadable(ids))
              /\ \A j \in Downloadable(ids) :
                    Cardinality({k \in 1..Len(entries) :
                                    entries[k].path = db[j].compressedPath}) = 1
              /\ \A k \in 1..Len(entries) :
                    \E j \in Downloadable(ids) :
                       /\ entries[k].path = db[j].compressedPath
                       /\ entries[k].name =
                            <<"c", "o", "m", "p", "r", "e", "s", "s", "e", "d", "-">>
                            \o db[j].format \o <<"-">> \o db[j].originalName]_vars

\* a zip of two entries of the same name, and a zip that leaves out a
\* requested record whose compressed file is gone
ZipHoldsExistingFilesWitness ==
    /\ reply.endpoint = "download-batch"
    /\ reply.zip
    /\ Len(reply.entries) = 2
    /\ reply.entries[1].name = reply.entries[2].name
    /\ reply.entries[1].path # reply.entries[2].path

ZipSkipsMissingFileWitness ==
    /\ reply.endpoint = "download-batch"
    /\ reply.zip
    /\ reply.imageIds = << <<1, 2>> >>
    /\ Len(db) = 2
    /\ Len(reply.entries) = 1

\* C9: with a non-empty prompt the format and quality handed to the engine
\* for every file are those the recommendation client returned for it,
\* whatever the request carried; with no prompt they are the format and
\* quality of the request, webp and 80 when absent, and the recommendation
\* client is not called.
PromptOverridesParameters ==
    \A r \in Requests :
       /\ (pc[r] \in {"compress", "save"}
           /\ reqBody[r].prompt \notin {<<>>, <<"">>})
          => /\ aiRec[r] # <<>>
             /\ target[r].format = aiRec[r][1].format
             /\ target[r].quality = aiRec[r][1].quality
             /\ recCalls[r] = idx[r]
       /\ (pc[r] \in {"compress", "save"}
           /\ reqBody[r].prompt \in {<<>>, <<"">>})
          => /\ aiRec[r] = <<>>
             /\ target[r].format =
                  IF reqBody[r].format = <<>> THEN <<"w", "e", "b", "p">>
                  ELSE reqBody[r].format[1]
             /\ target[r].quality =
                  IF reqBody[r].quality = <<>> THEN 80
                  ELSE IF reqBody[r].quality = <<QBad>> THEN NaN
                  ELSE AskedQuality(r)
       /\ reqBody[r].prompt \in {<<>>, <<"">>} => recCalls[r] = 0
       /\ pc[r] = "save"
          => /\ pending[r][1].record.format = target[r].format
             /\ pending[r][1].record.quality >= target[r].quality

\* a request for png with a prompt, whose second file is about to be
\* compressed to jpeg at 60 as the model said
PromptOverridesParametersWitness ==
    /\ pc[1] = "compress"
    /\ idx[1] = 2
    /\ reqBody[1].prompt = <<"for email">>
    /\ reqBody[1].format = <<Png>>
    /\ target[1] = [format |-> Jpeg, quality |-> 60]
    /\ recCalls[1] = 2

\* C10: when the compression or the save of file k of a batch throws, the
\* upload is answered with HTTP 500 and an error that holds no item, not
\* for the files before k either, and no file after k is processed.
FailureAbortsBatch ==
    \A r \in Requests :
       (/\ pc[r] = "done"
        /\ reqFiles[r] # <<>>
        /\ Len(results[r]) < Len(reqFiles[r]))
       => LET k == idx[r]
          IN  /\ resp[r].status = 500
              /\ ~resp[r].success
              /\ resp[r].error = "Failed to process images"
              /\ resp[r].details # ""
              /\ resp[r].items = <<>>
              /\ Len(results[r]) = k - 1
              /\ Len(db) = k - 1
              /\ \A i \in (k + 1)..Len(reqFiles[r]) :
                    \A p \in DOMAIN disk :
                       p.kind = "compressed-" => p.suffix # reqFiles[r][i].path.suffix

\* a batch of two that failed at its second file, after the record of the
\* first was stored, and one that failed at its first
FailureAbortsBatchWitness ==
    /\ pc[1] = "done"
    /\ resp[1].status = 500
    /\ Len(reqFiles[1]) = 2
    /\ idx[1] = 2
    /\ Len(db) = 1
    /\ Len(results[1]) = 1

FailureAtFirstFileWitness ==
    /\ pc[1] = "done"
    /\ resp[1].status = 500
    /\ Len(reqFiles[1]) = 2
    /\ idx[1] = 1
    /\ db = <<>>

\* the quality adaptiveCompress was called with for the file in hand
RequestedQuality(r) == target[r].quality

\* C11 as stated: whenever adaptiveCompress returns, the quality it used
\* is min(requested + 10, 95) when a region's label is important, and the
\* requested quality when none is, for every requested quality of 0..100.
BoostWheneverImportant ==
    \A r \in Requests :
       pc[r] = "save"
       => pending[r][1].record.quality =
            IF HoldsImportantLabel(regions[r].items)
            THEN (IF RequestedQuality(r) + 10 < 95
                  THEN RequestedQuality(r) + 10 ELSE 95)
            ELSE RequestedQuality(r)

\* C11 amended: whenever adaptiveCompress returns, the quality it used is
\* min(requested + 10, 95) when a region's label is important and the
\* requested quality is below 90, and the requested quality otherwise.
BoostBelowNinety ==
    \A r \in Requests :
       pc[r] = "save"
       => /\ pending[r][1].record.quality =
               IF HoldsImportantLabel(regions[r].items)
                     /\ RequestedQuality(r) < 90
               THEN (IF RequestedQuality(r) + 10 < 95
                     THEN RequestedQuality(r) + 10 ELSE 95)
               ELSE RequestedQuality(r)
          /\ pending[r][1].item.quality = pending[r][1].record.quality

\* the photo of a person asked at 88 comes out at 95
BoostBelowNinetyWitness ==
    /\ pc[1] = "save"
    /\ RequestedQuality(1) = 88
    /\ HoldsImportantLabel(regions[1].items)
    /\ pending[1][1].record.quality = 95

\* C12: the quality of every record POST /api/upload persisted, and of
\* every item of an upload response, is an integer of 0..100, whatever
\* quality the request carried and whatever number the text model named.
QualityInRange ==
    /\ \A j \in 1..Len(db) : db[j].quality \in 0..100
    /\ \A r \in Requests :
          /\ \A i \in 1..Len(resp[r].items) : resp[r].items[i].quality \in 0..100
          /\ \A i \in 1..Len(results[r]) : results[r][i].quality \in 0..100

\* a record at the quality 100 the text model named, and none for 150
QualityInRangeWitness ==
    /\ pc[1] = "done"
    /\ resp[1].status = 200
    /\ reqBody[1].prompt = <<"for email">>
    /\ Len(db) = 1
    /\ db[1].quality = 100

\* C13: the format of every record POST /api/upload persisted is one of
\* jpeg, webp, avif and png, whatever format the request carried and
\* whatever word the text model named.
FormatIsOneOfFour ==
    \A j \in 1..Len(db) :
       db[j].format \in {<<"j", "p", "e", "g">>, <<"w", "e", "b", "p">>,
                         <<"a", "v", "i", "f">>, <<"p", "n", "g">>}

\* C14: when a record is created, the file at its compressedPath has been
\* encoded and written, and compressedSize is the size of that file.
CompressedSizeIsFileSize ==
    \A r \in Requests :
       pc[r] = "save"
       => LET record == pending[r][1].record
          IN  /\ record.compressedPath \in DOMAIN disk
              /\ disk[record.compressedPath].size = record.compressedSize

\* C15: GET /api/image/:id answers 404 for every id that is not the id of
\* a stored record, whatever its form, and a success with the record and
\* its two URLs for every id of a stored record.
ImageFoundOr404 ==
    [][(reply' # reply /\ reply'.endpoint = "image")
       => LET id == reply'.id[1]
          IN  IF \E j \in 1..Len(db) : db[j].id = id
              THEN /\ reply'.status = 200
                   /\ reply'.success
                   /\ Len(reply'.data) = 1
                   /\ reply'.data[1].id = id
                   /\ \E j \in 1..Len(db) :
                         /\ db[j].id = id
                         /\ reply'.data[1].originalUrl.path = db[j].originalPath
                         /\ reply'.data[1].compressedUrl.path = db[j].compressedPath
                         /\ reply'.data[1].createdAt = db[j].createdAt
              ELSE reply'.status = 404]_vars

\* data is an answer GET /api/recent may give on the records: as many
\* summaries as there are records, ten at most, each of another record,
\* newest first, none older than a record left out
RecentOf(data, records) ==
    /\ Len(data) = IF Len(records) < 10 THEN Len(records) ELSE 10
    /\ \A i \in 1..Len(data) :
          \E j \in 1..Len(records) :
             /\ data[i].id = records[j].id
             /\ data[i].createdAt = records[j].createdAt
             /\ data[i].originalName = records[j].originalName
             /\ data[i].compressedSize = records[j].compressedSize
    /\ \A i, k \in 1..Len(data) :
          /\ i < k => data[i].createdAt >= data[k].createdAt
          /\ i # k => data[i].id # data[k].id
    /\ \A i \in 1..Len(data) :
          \A j \in 1..Len(records) :
             (\A k \in 1..Len(data) : data[k].id # records[j].id)
             => data[i].createdAt >= records[j].createdAt

\* C16: GET /api/recent asked again, with no record stored since the
\* answer before, gives the same summaries in the same order, also when
\* stored records share their createdAt.
RecentIsIdempotent ==
    [][(/\ reply.endpoint = "recent"
        /\ reply'.endpoint = "recent"
        /\ db' = db
        /\ RecentOf(reply.data, db))
       => reply'.data = reply.data]_vars

\* C17: GET /api/recent returns min(10, number of stored records)
\* summaries, newest first by createdAt, every one at least as new as
\* every stored record it leaves out.
RecentIsNewestTen ==
    [][(reply' # reply /\ reply'.endpoint = "recent")
       => /\ reply'.status = 200
          /\ reply'.success
          /\ RecentOf(reply'.data, db)]_vars

\* ten summaries of thirteen records, of more than one createdAt
RecentIsNewestTenWitness ==
    /\ reply.endpoint = "recent"
    /\ Len(db) > 12
    /\ Len(reply.data) = 10
    /\ reply.data[1].createdAt > reply.data[10].createdAt
    /\ reply.data[1].id = Len(db)

\* C18: when an upload fails at file k of a batch, the records and the
\* original and compressed files of the files before k stay stored, while
\* the response holds the error alone.
NoRollback ==
    \A r \in Requests :
       (/\ pc[r] = "done"
        /\ resp[r].status = 500
        /\ reqFiles[r] # <<>>)
       => /\ resp[r].items = <<>>
          /\ \A i \in 1..(idx[r] - 1) :
                /\ reqFiles[r][i].path \in DOMAIN disk
                /\ \E j \in 1..Len(db) :
                      /\ db[j].originalPath = reqFiles[r][i].path
                      /\ db[j].originalName = reqFiles[r][i].originalname
                      /\ db[j].compressedPath \in DOMAIN disk
                      /\ db[j].compressedPath # db[j].originalPath

\* a batch of two that failed at the save of its second file: the record
\* and the two files of the first are there, and the files of the second
NoRollbackWitness ==
    /\ pc[1] = "done"
    /\ resp[1].status = 500
    /\ resp[1].details = "the record could not be saved"
    /\ idx[1] = 2
    /\ Len(db) = 1
    /\ db[1].originalPath = reqFiles[1][1].path
    /\ db[1].compressedPath \in DOMAIN disk
    /\ Cardinality(DOMAIN disk) = 4

\* a compressed file made from the stored file is on disk
HasCompressedFile(file) ==
    \E p \in DOMAIN disk :
       p.kind = "compressed-" /\ p.suffix = file.path.suffix

\* a record of the stored file is in the collection
HasRecord(file) ==
    \E j \in 1..Len(db) : db[j].originalPath = file.path

\* C19: the files of a batch are processed one after the other in upload
\* order: while file k is between the start of its detection and the save
\* of its record, every file before k has its record saved and no file
\* after k has been started.
FilesInSequence ==
    \A r \in Requests :
       pc[r] \in {"detect", "recommend", "compress", "save"}
       => LET k == idx[r]
              n == Len(reqFiles[r])
          IN  /\ k \in 1..n
              /\ Len(results[r]) = k - 1
              /\ \A i \in 1..(k - 1) :
                    /\ results[r][i].originalUrl = reqFiles[r][i].path
                    /\ HasRecord(reqFiles[r][i])
                    /\ HasCompressedFile(reqFiles[r][i])
              /\ \A i \in k..n : ~HasRecord(reqFiles[r][i])
              /\ \A i \in (k + 1)..n : ~HasCompressedFile(reqFiles[r][i])
              /\ IF pc[r] = "save"
                 THEN /\ pending[r] # <<>>
                      /\ pending[r][1].record.originalPath = reqFiles[r][k].path
                      /\ HasCompressedFile(reqFiles[r][k])
                 ELSE /\ pending[r] = <<>>
                      /\ ~HasCompressedFile(reqFiles[r][k])

\* the second file of a batch is being compressed after the record of the
\* first was saved
FilesInSequenceWitness ==
    /\ pc[1] = "compress"
    /\ idx[1] = 2
    /\ Len(reqFiles[1]) = 2
    /\ Len(db) = 1
    /\ db[1].originalPath = reqFiles[1][1].path

\* the records of the collection made from the files of request r, in the
\* order of the collection
RECURSIVE RecordsOf(_, _)
RecordsOf(records, r) ==
    IF records = <<>> THEN <<>>
    ELSE LET rest == RecordsOf(Tail(records), r)
         IN  IF \E i \in 1..Len(reqFiles[r]) :
                    reqFiles[r][i].path = Head(records).originalPath
             THEN <<Head(records)>> \o rest
             ELSE rest

\* the item and the record were made from the file, the body and the id of
\* one iteration of request r
MadeFrom(r, i, item, record) ==
    LET file == reqFiles[r][i]
    IN  /\ item.originalUrl = file.path
        /\ item.originalName = file.originalname
        /\ item.originalSize = file.size
        /\ item.compressedUrl = CompressedPath(file.path, item.format)
        /\ record.id = item.id
        /\ record.originalPath = file.path
        /\ record.originalName = file.originalname
        /\ record.originalSize = file.size
        /\ record.compressedPath = item.compressedUrl
        /\ record.compressedSize = item.compressedSize
        /\ record.format = item.format
        /\ record.quality = item.quality
        /\ record.promptUsed = reqBody[r].prompt

\* C20: when two uploads whose generated file names differ have run
\* interleaved and both are answered, each response holds items of the files
\* of its own request only, and the collection holds exactly the records the
\* two requests saved: one for each item pushed, none lost, none twice, each
\* made from the data of its own request.
ConcurrentUploadsApart ==
    (\A r \in Requests : pc[r] = "done")
    => /\ \A r \in Requests :
             /\ Len(resp[r].items) <= Len(reqFiles[r])
             /\ resp[r].status = 200 => resp[r].items = results[r]
             /\ Len(RecordsOf(db, r)) = Len(results[r])
             /\ \A i \in 1..Len(results[r]) :
                   MadeFrom(r, i, results[r][i], RecordsOf(db, r)[i])
       /\ Len(db) = Len(results[1]) + Len(results[2])
       /\ \A j, k \in 1..Len(db) : db[j].id = db[k].id => j = k

\* both requests were answered with success after the second saved a record
\* between two records of the first
ConcurrentUploadsApartWitness ==
    /\ \A r \in Requests : pc[r] = "done" /\ resp[r].status = 200
    /\ Len(db) = 3
    /\ Len(reqFiles[1]) = 2
    /\ Len(reqFiles[2]) = 1
    /\ db[1].originalPath = reqFiles[1][1].path
    /\ db[2].originalPath = reqFiles[2][1].path
    /\ db[3].originalPath = reqFiles[1][2].path
    /\ reqBody[2].prompt # <<>>

\* the last part of request r stored under the path of its file i
LastWriter(r, i) ==
    SetMax({j \in 1..Len(reqFiles[r]) : reqFiles[r][j].path = reqFiles[r][i].path})

\* C21: two files stored in the same millisecond with the same random
\* number and the same extension get the same original path and, for one
\* target format, the same compressed path; the file under that path is
\* the one written last, and the records of both files reference it.
SameSuffixSamePath ==
    \A i, j \in 1..Len(reqFiles[1]) :
       LET f == reqFiles[1][i]
           g == reqFiles[1][j]
       IN  /\ (f.path.suffix = g.path.suffix
                 /\ ExtName(f.originalname) = ExtName(g.originalname))
              => /\ f.path = g.path
                 /\ \A fmt \in Formats :
                       CompressedPath(f.path, fmt) = CompressedPath(g.path, fmt)
           /\ ExistsSync(disk, f.path)
              => disk[f.path] = StoredContent(reqParts[1][LastWriter(1, i)])
           /\ \A a, b \in 1..Len(db) :
                 (db[a].originalPath = f.path /\ db[b].originalPath = g.path
                    /\ f.path = g.path)
                 => db[a].compressedPath = db[b].compressedPath

\* two records reference one original file and one compressed file, and the
\* original on disk is the second file sent, not the first
SameSuffixSamePathWitness ==
    /\ Len(db) = 2
    /\ db[1].id # db[2].id
    /\ db[1].originalPath = db[2].originalPath
    /\ db[1].compressedPath = db[2].compressedPath
    /\ db[1].originalSize # db[2].originalSize
    /\ ExistsSync(disk, db[1].originalPath)
    /\ disk[db[1].originalPath].size = db[2].originalSize

\* the text holds the word when letters are compared without regard to case
ContainsIgnoringCase(text, word) ==
    \E i \in 0..(Len(text) - Len(word)) :
        \A j \in 1..Len(word) : ToLowerChar(text[i + j]) = word[j]

\* some region handed to the engine has a label that holds a word of the set
SomeLabelHolds(regionList, words) ==
    \E i \in 1..Len(regionList.items) :
        /\ regionList.items[i].label # <<>>
        /\ \E word \in words :
              ContainsIgnoringCase(regionList.items[i].label[1], word)

\* the file of request 1 was compressed at the quality asked for raised by
\* the step exactly when some label holds a word of the set
RaisedExactlyFor(words) ==
    (pc[1] = "save" /\ target[1].quality < BoostBelow)
    => LET used == pending[1][1].record.quality
       IN  IF SomeLabelHolds(regions[1], words)
           THEN used = target[1].quality + BoostStep
           ELSE used = target[1].quality

KeywordsWithPhone ==
    { <<"p", "e", "r", "s", "o", "n">>, <<"f", "a", "c", "e">>, <<"t", "e", "x", "t">>, <<"b", "o", "o", "k">>, <<"l", "a", "p", "t", "o", "p">>, <<"p", "h", "o", "n", "e">> }

KeywordsWithCellPhone ==
    { <<"p", "e", "r", "s", "o", "n">>, <<"f", "a", "c", "e">>, <<"t", "e", "x", "t">>, <<"b", "o", "o", "k">>, <<"l", "a", "p", "t", "o", "p">>, <<"c", "e", "l", "l", " ", "p", "h", "o", "n", "e">> }

\* C22 as stated: a region is important exactly when its label holds,
\* without regard to case, one of person, face, text, book, laptop, phone;
\* so a label such as telephone raises the quality.
ImportantIffPhoneKeyword == RaisedExactlyFor(KeywordsWithPhone)

\* C22 amended: a region is important exactly when its label holds, without
\* regard to case, one of person, face, text, book, laptop, cell phone; a
\* label that holds phone and none of these, such as telephone, does not
\* raise the quality.
ImportantIffCellPhoneKeyword == RaisedExactlyFor(KeywordsWithCellPhone)

\* a photo with a region "Cell Phone" was compressed at the raised quality
ImportantIffCellPhoneKeywordWitness ==
    /\ pc[1] = "save"
    /\ Len(regions[1].items) = 1
    /\ regions[1].items[1].label = << <<"C", "e", "l", "l", " ", "P", "h", "o", "n", "e">> >>
    /\ target[1].quality = 70
    /\ pending[1][1].record.quality = 80

\* C23: no request to any endpoint changes or removes a record: in every
\* step every record of the collection stays where it is with every field
\* as it was, and the collection only grows.
RecordsAreKept ==
    [][/\ Len(db') >= Len(db)
       /\ \A j \in 1..Len(db) : db'[j] = db[j]]_vars

\* two records are stored, the first was served by /api/image, and a
\* request to /api/ai-format has been answered since
RecordsAreKeptWitness ==
    /\ Len(db) = 2
    /\ db[1].id = 1
    /\ reply.endpoint = "ai-format"
    /\ reply.status = 200

\* C24: a request to /api/ai-format that carried an image and is answered
\* with success has removed the file multer stored for it and has added no
\* record; and no step of /api/upload removes an original file from the
\* uploads directory.
FormatRequestLeavesNothing ==
    [][/\ (reply' # reply /\ reply'.endpoint = "ai-format" /\ reply'.success)
          => /\ reply.file # <<>>
             /\ ExistsSync(disk, reply.file[1].path)
             /\ ~ExistsSync(disk', reply.file[1].path)
             /\ db' = db
       /\ (uploadVars' # uploadVars)
          => \A p \in DOMAIN disk :
                p.kind = "original-" => ExistsSync(disk', p)]_vars

\* the request to /api/ai-format was answered with success while the upload
\* had stored its original and one record
FormatRequestLeavesNothingWitness ==
    /\ reply.endpoint = "ai-format"
    /\ reply.success
    /\ reply.file # <<>>
    /\ ~ExistsSync(disk, reply.file[1].path)
    /\ Len(db) = 1
    /\ ExistsSync(disk, db[1].originalPath)

\* the text has a line "KEY: value": the key in letters of either case,
\* blanks, and on the same line a character of the class of the value
HasLine(text, key, class) ==
    \E i \in 1..Len(text) :
       /\ i + Len(key) - 1 <= Len(text)
       /\ \A j \in 1..Len(key) : ToLowerChar(text[i + j - 1]) = key[j]
       /\ \E k \in 0..(Len(text) - (i + Len(key))) :
             /\ \A m \in 0..(k - 1) : text[i + Len(key) + m] \in {" ", "\t"}
             /\ InClass(class, text[i + Len(key) + k])

\* C25: an answer of the text model without a line "QUALITY: <digits>" gives
\* the quality 80, and one without a line "FORMAT: <word>" gives the format
\* webp, each whatever the other line holds; for the format recommendation
\* an answer without a FORMAT line gives the format webp.
ParseMissGivesDefault ==
    /\ (reply.endpoint = "ai-quality" /\ reply.status = 200)
       => LET text == reply.answer[1].text
              recommendation == reply.recommendation[1]
          IN  /\ ~HasLine(text, QualityKey, "d")
                 => recommendation.quality = DefaultQuality
              /\ ~HasLine(text, FormatKey, "w")
                 => recommendation.format = Webp
    /\ (reply.endpoint = "ai-format" /\ reply.status = 200)
       => (~HasLine(reply.answer[1].text, FormatKey, "w")
             => reply.recommendation[1].format = Webp)

\* C27: the format of every record is the format of the encoder that
\* produced the compressed bytes: the branch of the engine's switch taken
\* for the record's format encodes in that format, so a format other than
\* webp, avif and png is never encoded as JPEG under another name.
FormatIsEncoderFormat ==
    \A j \in 1..Len(db) :
       /\ ExistsSync(disk, db[j].compressedPath)
       /\ db[j].compressedPath.format = db[j].format
       /\ EncoderOf(db[j].format) = db[j].format

\* C26: once every preview load has settled, previews has the length of
\* selectedFiles and its entry i is the data URL of file i, also when
\* another selection, a removal or clearAll came while loads were pending.
PreviewsMatchSelection ==
    net.loads = {}
    => /\ Len(ui.previews) = Len(ui.selectedFiles)
       /\ \A i \in 1..Len(ui.previews) :
             ui.previews[i] = DataUrl(ui.selectedFiles[i])

\* C28: the results shown are those of an upload of the current selection:
\* after clearAll or a new selection results is empty until an upload
\* started after it is answered.
ResultsOfCurrentSelection ==
    ui.results # <<>>
    => /\ ui.selectedFiles # <<>>
       /\ \A i \in 1..Len(ui.results) :
             ui.results[i].of.sel = ui.selectedFiles[1].sel

\* C29: batchMode is true exactly when more than one file is selected.
BatchModeIffSeveral ==
    ui.batchMode <=> Len(ui.selectedFiles) > 1

\* C30: gettingAiRecommendation is true while a request to /api/ai-format
\* or /api/ai-quality is in flight.
RecommendingWhileInFlight ==
    net.formatRequests + net.qualityRequests > 0
    => ui.gettingAiRecommendation

=============================================================================
